---- MODULE Spec2Model ----
(***************************************************************************)
(* A model of nedok, the dual pane terminal file browser.                  *)
(*                                                                         *)
(* The controller (DualPaneBrowser and its mixins), its two panes          *)
(* (_PaneState) and the local filesystem they list are the state; one      *)
(* action models one iteration of DualPaneBrowser._loop: render_browser,   *)
(* then getch and the dispatch of the key to the handler of the active     *)
(* modal state.  Handlers are written as operators from a "world" (the     *)
(* controller record, the filesystem, the exception in flight and the log  *)
(* of the external calls of the step) to the world they leave, in the      *)
(* order of the statements of the source.                                  *)
(*                                                                         *)
(* Strings are TLA+ strings: status messages are built by the same         *)
(* concatenations as the f-strings of the source, and substring tests      *)
(* ("failed" in message.lower()) are computed on the text.                 *)
(* Optional values are sequences of length 0 (None) or 1.                  *)
(* Paths are sequences of names; <<>> is the filesystem root.              *)
(* Left out: the columns an entry only displays (mode string, size,        *)
(* modification time, owner), command_output and the curses drawing.       *)
(***************************************************************************)
EXTENDS Integers, Sequences, FiniteSets, TLC

VARIABLES
    browser,    \* the DualPaneBrowser object: its fields, the two panes included
    fs,         \* the local filesystem: path -> node, for the paths that exist
    remote,     \* the filesystem of the remote host, as SFTP shows it
    git,        \* the git repository on the local filesystem: root, HEAD and index
    config,     \* ~/.nedok.toml (saved SSH credentials) and the SSH agent's presence
    loop,       \* position of _loop: "start", "render", "getch", "exited", "crashed"
    key,        \* the local `key` of _loop: the last key getch returned
    calls       \* the external calls (and their outcome) made by the last step

vars == <<browser, fs, remote, git, config, loop, key, calls>>

----------------------------------------------------------------------------
(* Bounds of the model *)

\* longest path (in names) the filesystem may hold
MaxDepth == 2
\* most nodes the filesystem may hold besides the root
MaxNodes == 5
\* rows of the entry viewport that render_browser hands to ensure_cursor_visible
ViewportRows == 2
\* longest text a buffer (command, rename, create, SSH fields) is typed up to
MaxBuf == 1

----------------------------------------------------------------------------
(* Optional values *)

None == <<>>
Some(x) == <<x>>
IsNone(o) == o = <<>>
IsSome(o) == o # <<>>
Get(o) == o[1]

Min(a, b) == IF a < b THEN a ELSE b
Max(a, b) == IF a > b THEN a ELSE b

----------------------------------------------------------------------------
(* Text *)

\* the characters the model's names and messages are compared by, in ASCII order
Alphabet == " '.:?ABCDEFGHIJKLMNOPQRSTUVWXYZabcdefghijklmnopqrstuvwxyz"
Uppers == "ABCDEFGHIJKLMNOPQRSTUVWXYZ"
Lowers == "abcdefghijklmnopqrstuvwxyz"

CharAt(s, i) == SubSeq(s, i, i)

IndexIn(c, s) ==
    IF \E i \in 1..Len(s) : CharAt(s, i) = c
    THEN CHOOSE i \in 1..Len(s) : CharAt(s, i) = c
    ELSE 0

\* ord(): the rank of a character
Ord(c) == IndexIn(c, Alphabet)

\* str.lower() on one character
LowerChar(c) ==
    IF IndexIn(c, Uppers) > 0 THEN CharAt(Lowers, IndexIn(c, Uppers)) ELSE c

RECURSIVE Lower(_)
\* str.lower()
Lower(s) ==
    IF Len(s) = 0 THEN ""
    ELSE LowerChar(CharAt(s, 1)) \o Lower(SubSeq(s, 2, Len(s)))

\* `t in s` for strings
Contains(s, t) ==
    \E i \in 1..(Len(s) - Len(t) + 1) : SubSeq(s, i, i + Len(t) - 1) = t

RECURSIVE LStrip(_)
LStrip(s) ==
    IF Len(s) > 0 /\ CharAt(s, 1) = " " THEN LStrip(SubSeq(s, 2, Len(s))) ELSE s

RECURSIVE RStrip(_)
RStrip(s) ==
    IF Len(s) > 0 /\ CharAt(s, Len(s)) = " "
    THEN RStrip(SubSeq(s, 1, Len(s) - 1)) ELSE s

\* str.strip()
Strip(s) == RStrip(LStrip(s))

\* s[:-1]
DropLast(s) == IF Len(s) = 0 THEN "" ELSE SubSeq(s, 1, Len(s) - 1)

RECURSIVE StrLess(_, _)
\* s < t for strings (lexicographic by character rank)
StrLess(s, t) ==
    IF Len(t) = 0 THEN FALSE
    ELSE IF Len(s) = 0 THEN TRUE
    ELSE IF Ord(CharAt(s, 1)) < Ord(CharAt(t, 1)) THEN TRUE
    ELSE IF Ord(CharAt(s, 1)) > Ord(CharAt(t, 1)) THEN FALSE
    ELSE StrLess(SubSeq(s, 2, Len(s)), SubSeq(t, 2, Len(t)))

\* a call of one method of the program by another, by name (defined below, once
\* the methods are)
RECURSIVE Run(_, _)

----------------------------------------------------------------------------
(* Paths and the local filesystem *)

Root == <<>>

\* Path.parent: the root is its own parent
Parent(p) == IF Len(p) = 0 THEN p ELSE SubSeq(p, 1, Len(p) - 1)

\* Path.name
Name(p) == IF Len(p) = 0 THEN "" ELSE p[Len(p)]

\* path / name
Join(p, n) == Append(p, n)

IsPrefix(p, q) == Len(p) <= Len(q) /\ SubSeq(q, 1, Len(p)) = p

RECURSIVE ResolveFrom(_, _, _, _)
\* walk `rest` from the resolved prefix `done`, following symlinks; None when the
\* walk meets more symlinks than the filesystem has nodes (a symlink loop)
ResolveFrom(f, done, rest, fuel) ==
    IF Len(rest) = 0 THEN Some(done)
    ELSE LET nxt == Append(done, Head(rest)) IN
         IF nxt \in DOMAIN f /\ f[nxt].kind = "link"
         THEN IF fuel = 0 THEN None
              ELSE ResolveFrom(f, <<>>, f[nxt].target \o Tail(rest), fuel - 1)
         ELSE ResolveFrom(f, nxt, Tail(rest), fuel)

\* Path.resolve(): None stands for the OSError/RuntimeError of a symlink loop
Resolve(f, p) == ResolveFrom(f, <<>>, p, Cardinality(DOMAIN f))

\* os.stat (follows symlinks): the kind of the node p names, "none" when stat fails
StatKind(f, p) ==
    LET t == Resolve(f, p) IN
    IF IsSome(t) /\ Get(t) \in DOMAIN f THEN f[Get(t)].kind ELSE "none"

\* Path.exists()
Exists(f, p) == StatKind(f, p) # "none"
\* Path.is_dir()
IsDir(f, p) == StatKind(f, p) = "dir"
\* Path.is_symlink()
IsSymlink(f, p) == p \in DOMAIN f /\ f[p].kind = "link"

\* a node: kind "file" (data: its content), "dir" (r: whether it may be listed) or
\* "link" (target: the absolute path the symlink names)
FileNode(d) == [kind |-> "file", data |-> d, r |-> TRUE, target |-> <<>>]
DirNode == [kind |-> "dir", data |-> 0, r |-> TRUE, target |-> <<>>]
LockedDirNode == [kind |-> "dir", data |-> 0, r |-> FALSE, target |-> <<>>]
LinkNode(t) == [kind |-> "link", data |-> 0, r |-> TRUE, target |-> t]

\* the children of the node at p
Children(f, p) == {q \in DOMAIN f : Len(q) = Len(p) + 1 /\ IsPrefix(p, q)}

\* Path.iterdir() of a directory that can be listed: the names in the directory that
\* p resolves to, each joined to p
IterDir(f, p) == {Join(p, Name(q)) : q \in Children(f, Get(Resolve(f, p)))}

RECURSIVE PathTail(_)
PathTail(p) == IF Len(p) = 0 THEN "" ELSE "/" \o Head(p) \o PathTail(Tail(p))

\* str(path)
PathStr(p) == IF Len(p) = 0 THEN "/" ELSE PathTail(p)

\* an exception: its class and str(err)
Exc(type, msg) == [type |-> type, msg |-> msg]

\* the classes `except OSError` catches (IOError is OSError; shutil.Error,
\* PermissionError, FileNotFoundError and NotADirectoryError derive from it)
IsOSError(e) == e.type \in {"OSError", "PermissionError", "FileNotFoundError",
                            "NotADirectoryError", "IsADirectoryError"}

\* what the operating system raises when p is listed: None when the listing succeeds
ListError(f, p) ==
    CASE StatKind(f, p) = "none" ->
            Some(Exc("FileNotFoundError", "No such file or directory: " \o PathStr(p)))
      [] StatKind(f, p) = "file" ->
            Some(Exc("NotADirectoryError", "Not a directory: " \o PathStr(p)))
      [] ~f[Get(Resolve(f, p))].r ->
            Some(Exc("PermissionError", "Permission denied: " \o PathStr(p)))
      [] OTHER -> None

\* the nodes at and below p
Subtree(f, p) == {q \in DOMAIN f : IsPrefix(p, q)}

\* f without the paths in gone
Without(f, gone) == [q \in DOMAIN f \ gone |-> f[q]]

\* f with path p bound to node n
With(f, p, n) == [q \in DOMAIN f \cup {p} |-> IF q = p THEN n ELSE f[q]]

\* the filesystem stays within the bounds of the model
FitsBounds(f) ==
    /\ \A q \in DOMAIN f : Len(q) <= MaxDepth
    /\ Cardinality(DOMAIN f) <= MaxNodes + 1

----------------------------------------------------------------------------
(* Git: the status of the working tree as `git status --porcelain` reports it *)

\* the content of the regular file at p in the working tree, None when there is none
WorkFile(f, p) ==
    IF p \in DOMAIN f /\ f[p].kind = "file" THEN Some(f[p].data) ELSE None

Lookup(m, p) == IF p \in DOMAIN m THEN Some(m[p]) ELSE None

\* git rev-parse --show-toplevel run in directory d: the repository root, or None
\* (non-zero exit) when d is not inside the repository
RevParseToplevel(f, g, d) ==
    LET r == Resolve(f, d) IN
    IF IsSome(g.root) /\ IsSome(r) /\ IsDir(f, d) /\ IsPrefix(Get(g.root), Get(r))
    THEN g.root ELSE None

\* the two status columns of path p: index against HEAD, working tree against index
PorcelainCode(f, g, p) ==
    LET h == Lookup(g.head, p)
        i == Lookup(g.index, p)
        w == WorkFile(f, p)
        x == CASE h = i -> " "
               [] IsNone(h) -> "A"
               [] IsNone(i) -> "D"
               [] OTHER -> "M"
        y == CASE IsNone(i) -> " "
               [] w = i -> " "
               [] IsNone(w) -> "D"
               [] OTHER -> "M"
    IN IF IsNone(i) /\ IsNone(h) /\ IsSome(w) THEN "??" ELSE x \o y

\* the renames git reports: each path that is in the index and not in HEAD, paired
\* with a path that is in HEAD and not in the index and had the same content
RECURSIVE Renames(_, _, _)
Renames(g, added, deleted) ==
    LET pairs == {q \in added \X deleted : g.index[q[1]] = g.head[q[2]]} IN
    IF pairs = {} THEN <<>>
    ELSE LET c == CHOOSE q \in pairs : TRUE
         IN (c[1] :> c[2]) @@ Renames(g, added \ {c[1]}, deleted \ {c[2]})

\* new path :> old path, for the renames staged in the index
StagedRenames(g) ==
    Renames(g, DOMAIN g.index \ DOMAIN g.head, DOMAIN g.head \ DOMAIN g.index)

\* the path p as git writes it, relative to the repository root
PathText(top, p) ==
    LET t == PathTail(SubSeq(p, Len(top) + 1, Len(p))) IN SubSeq(t, 2, Len(t))

RECURSIVE PathOfText(_)
\* Path(path_text): the names between the slashes
PathOfText(text) ==
    IF Len(text) = 0 THEN <<>>
    ELSE IF \E i \in 1..Len(text) : CharAt(text, i) = "/"
    THEN LET i == CHOOSE k \in 1..Len(text) :
                      /\ CharAt(text, k) = "/"
                      /\ \A m \in 1..(k - 1) : CharAt(text, m) # "/"
         IN (IF i = 1 THEN <<>> ELSE <<SubSeq(text, 1, i - 1)>>)
            \o PathOfText(SubSeq(text, i + 1, Len(text)))
    ELSE <<text>>

RECURSIVE StatusFields(_, _, _, _, _)
\* the fields of the entries of the paths in `todo`, in the order of their text
StatusFields(f, g, top, renames, todo) ==
    IF todo = {} THEN <<>>
    ELSE LET p == CHOOSE x \in todo :
                      \A y \in todo : ~StrLess(PathText(top, y), PathText(top, x))
             code == PorcelainCode(f, g, p)
             fields == IF p \in DOMAIN renames
                       THEN <<"R" \o CharAt(code, 2) \o " " \o PathText(top, p),
                              PathText(top, renames[p])>>
                       ELSE <<code \o " " \o PathText(top, p)>>
         IN fields \o StatusFields(f, g, top, renames, todo \ {p})

\* the output of `git status --porcelain=1 -z` run at the repository root top,
\* split at the NULs: one field "XY path" for each entry, and for a rename the
\* field "XY to" followed by the field "from"; the output ends with a NUL, so the
\* last piece is empty
GitStatusZ(f, g, top) ==
    LET renames == StagedRenames(g)
        sources == {renames[n] : n \in DOMAIN renames}
        paths == {p \in DOMAIN g.head \cup DOMAIN g.index
                     \cup {q \in Subtree(f, top) : f[q].kind = "file"} :
                     PorcelainCode(f, g, p) # "  "} \ sources
    IN StatusFields(f, g, top, renames, paths) \o <<"">>

RECURSIVE ParseStatus(_, _, _, _, _)
\* the while loop of collect_git_status over the fields, from position index
ParseStatus(entries, index, repo_root, f, status_map) ==
    IF index > Len(entries) THEN status_map
    ELSE LET raw_entry == entries[index]
             next == index + 1
         IN IF Len(raw_entry) = 0 \/ Len(raw_entry) < 4
            THEN ParseStatus(entries, next, repo_root, f, status_map)
            ELSE LET status_code == SubSeq(raw_entry, 1, 2)
                     second == CharAt(status_code, 1) \in {"R", "C"} /\ next <= Len(entries)
                     path_text == IF second /\ Len(entries[next]) > 0
                                  THEN entries[next]
                                  ELSE SubSeq(raw_entry, 4, Len(raw_entry))
                     joined == repo_root \o PathOfText(path_text)
                     absolute == IF IsSome(Resolve(f, joined)) THEN Get(Resolve(f, joined))
                                 ELSE joined
                 IN ParseStatus(entries, IF second THEN next + 1 ELSE next, repo_root, f,
                                With(status_map, absolute, status_code))

\* collect_git_status(directory): (repo_root, {resolved path: code})
collect_git_status(f, g, d) ==
    LET top == RevParseToplevel(f, g, d) IN
    IF IsNone(top) THEN [repo_root |-> None, status_map |-> <<>>]
    ELSE [repo_root |-> top,
          status_map |-> ParseStatus(GitStatusZ(f, g, Get(top)), 1, Get(top), f, <<>>)]

----------------------------------------------------------------------------
(* Entries: _PaneEntry *)

\* _PaneState._build_entry
_build_entry(f, path, is_parent) ==
    [path |-> path,
     is_dir |-> IsDir(f, path),
     is_parent |-> is_parent,
     git_status |-> None,
     is_symlink |-> Exists(f, path) /\ IsSymlink(f, path),
     is_remote |-> FALSE,
     tree_depth |-> 0,
     tree_parent_path |-> None,
     tree_is_collapsed |-> FALSE,
     tree_is_expanded |-> FALSE]

\* _PaneState._build_remote_entry: attrs are those of the listing (lstat), and a
\* parent entry, built without attrs, counts as a directory
_build_remote_entry(rf, path, is_parent) ==
    [path |-> path,
     is_dir |-> IF is_parent THEN TRUE ELSE path \in DOMAIN rf /\ rf[path].kind = "dir",
     is_parent |-> is_parent,
     git_status |-> None,
     is_symlink |-> ~is_parent /\ path \in DOMAIN rf /\ rf[path].kind = "link",
     is_remote |-> TRUE,
     tree_depth |-> 0,
     tree_parent_path |-> None,
     tree_is_collapsed |-> FALSE,
     tree_is_expanded |-> FALSE]

\* PurePosixPath(...).name or Path(...).name of an entry
_get_entry_name(entry) == Name(entry.path)

\* _sort_key comparing the names as they are written
_sort_key_cased(f, path) == [rank |-> IF IsDir(f, path) THEN 0 ELSE 1,
                             lname |-> Name(path),
                             path |-> path]

\* _PaneState._sort_key: (0 if is_dir else 1, name.lower())
_sort_key(f, path) == [rank |-> IF IsDir(f, path) THEN 0 ELSE 1,
                       lname |-> Lower(Name(path)),
                       path |-> path]

\* the key of the sort in _refresh_remote_entries
RemoteSortKey(rf, path) == [rank |-> IF rf[path].kind = "dir" THEN 0 ELSE 1,
                            lname |-> Lower(Name(path)),
                            path |-> path]

\* tuple comparison of two sort keys
KeyLess(a, b) ==
    \/ a.rank < b.rank
    \/ a.rank = b.rank /\ StrLess(a.lname, b.lname)

RECURSIVE SortedByKey(_)
\* sorted(..., key=...): the paths of the keys in ascending key order.  Python's
\* sort keeps equal keys in the order the directory listing gave them, which is
\* arbitrary; CHOOSE fixes one such order
SortedByKey(keys) ==
    IF keys = {} THEN <<>>
    ELSE LET m == CHOOSE x \in keys : \A y \in keys : ~KeyLess(y, x)
         IN <<m.path>> \o SortedByKey(keys \ {m})

\* sorted(directory.iterdir(), key=self._sort_key)
SortedListing(f, d) == SortedByKey({_sort_key(f, p) : p \in IterDir(f, d)})

----------------------------------------------------------------------------
(* Panes: _PaneState.  An operation that may raise yields [pane, exc]: the pane
   as the operation left it and the exception that left it, None when it returned. *)

\* the environment a pane reads: local and remote filesystem and the repository
Env(f, rf, g) == [fs |-> f, remote |-> rf, git |-> g]

\* _PaneState(current_dir=...)
NewPane(dir) ==
    [current_dir |-> dir,
     cursor_index |-> 0,
     scroll_offset |-> 0,
     entries |-> <<>>,
     ssh_connection |-> None,
     tree_mode_enabled |-> FALSE,
     tree_collapsed_paths |-> {}]

Returned(pane) == [pane |-> pane, exc |-> None]
Raised(pane, e) == [pane |-> pane, exc |-> Some(e)]

\* the try/except of _refresh_local_entries: PermissionError and FileNotFoundError
\* are raised again with the pane's own text, any other error passes as it is
LocalListError(f, current) ==
    LET err == ListError(f, current) IN
    IF IsNone(err) THEN None
    ELSE CASE Get(err).type = "PermissionError" ->
                 Some(Exc("PermissionError",
                          "Permission denied reading directory: " \o PathStr(current)))
           [] Get(err).type = "FileNotFoundError" ->
                 Some(Exc("FileNotFoundError",
                          "Directory not found: " \o PathStr(current)))
           [] OTHER -> err

\* _PaneState.is_remote
is_remote(pane) == IsSome(pane.ssh_connection) /\ Get(pane.ssh_connection).is_connected

\* a refresh that replaces the entries and leaves the cursor where it was
SetEntriesOnly(pane, items) == [pane EXCEPT !.entries = items]

\* the last three statements of each refresh: replace the entries and clamp
SetEntries(pane, items) ==
    [pane EXCEPT !.entries = items,
                 !.cursor_index = Min(pane.cursor_index, Max(Len(items) - 1, 0)),
                 !.scroll_offset = Min(pane.scroll_offset, Max(Len(items) - 1, 0))]

\* _attach_git_status looking up the path of the entry as it is listed
_attach_git_status_unresolved(pane, e, items) ==
    IF Len(items) = 0 THEN items
    ELSE LET st == Run("collect_git_status", <<e.fs, e.git, pane.current_dir>>) IN
         IF DOMAIN st.status_map = {} \/ IsNone(st.repo_root) THEN items
         ELSE [i \in 1..Len(items) |->
                 [items[i] EXCEPT !.git_status = Lookup(st.status_map, items[i].path)]]

\* _PaneState._attach_git_status
_attach_git_status(pane, e, items) ==
    IF Len(items) = 0 THEN items
    ELSE LET st == Run("collect_git_status", <<e.fs, e.git, pane.current_dir>>) IN
         IF DOMAIN st.status_map = {} \/ IsNone(st.repo_root) THEN items
         ELSE [i \in 1..Len(items) |->
                 LET r == Resolve(e.fs, items[i].path) IN
                 IF IsNone(r) THEN items[i]
                 ELSE [items[i] EXCEPT !.git_status = Lookup(st.status_map, Get(r))]]

\* a local refresh that empties the list before it reads the directory
_refresh_local_entries_clearing(pane, e, mode) ==
    LET current == pane.current_dir
        parents == IF current # Parent(current)
                   THEN <<_build_entry(e.fs, Parent(current), TRUE)>> ELSE <<>>
        err == Run("LocalListError", <<e.fs, current>>)
    IN IF IsSome(err) THEN Raised([pane EXCEPT !.entries = parents], Get(err))
       ELSE LET candidates == SortedListing(e.fs, current)
                items == parents \o [i \in 1..Len(candidates) |->
                                        _build_entry(e.fs, candidates[i], FALSE)]
                final == IF mode = "GIT" THEN Run("_attach_git_status", <<pane, e, items>>)
                         ELSE items
            IN Returned(SetEntries(pane, final))

\* _PaneState._refresh_local_entries
_refresh_local_entries(pane, e, mode) ==
    LET current == pane.current_dir
        parents == IF current # Parent(current)
                   THEN <<_build_entry(e.fs, Parent(current), TRUE)>> ELSE <<>>
        err == Run("LocalListError", <<e.fs, current>>)
    IN IF IsSome(err) THEN Raised(pane, Get(err))
       ELSE LET candidates == SortedListing(e.fs, current)
                items == parents \o [i \in 1..Len(candidates) |->
                                        _build_entry(e.fs, candidates[i], FALSE)]
                final == IF mode = "GIT" THEN Run("_attach_git_status", <<pane, e, items>>)
                         ELSE items
            IN Returned(SetEntries(pane, final))

\* SSHConnection.list_directory raises IOError unless path is a directory of the
\* remote host that can be listed
RemoteListFails(rf, path) ==
    ~(path \in DOMAIN rf /\ rf[path].kind = "dir" /\ rf[path].r)

\* _refresh_remote_entries with a parent entry at the remote root as well
_refresh_remote_entries_with_parent(pane, e, mode) ==
    IF ~is_remote(pane) THEN Returned(pane)
    ELSE LET current == pane.current_dir
             parents == <<_build_remote_entry(e.remote, Parent(current), TRUE)>>
         IN IF RemoteListFails(e.remote, current)
            THEN Raised(pane, Exc("PermissionError",
                                  "Error reading remote directory: " \o PathStr(current)))
            ELSE LET listed == SortedByKey({RemoteSortKey(e.remote, q) :
                                               q \in Children(e.remote, current)})
                     items == parents \o [i \in 1..Len(listed) |->
                                             _build_remote_entry(e.remote, listed[i], FALSE)]
                 IN Returned(SetEntries(pane, items))

\* _PaneState._refresh_remote_entries
_refresh_remote_entries(pane, e, mode) ==
    IF ~is_remote(pane) THEN Returned(pane)
    ELSE LET current == pane.current_dir
             parents == IF current # Parent(current)
                        THEN <<_build_remote_entry(e.remote, Parent(current), TRUE)>>
                        ELSE <<>>
         IN IF RemoteListFails(e.remote, current)
            THEN Raised(pane, Exc("PermissionError",
                                  "Error reading remote directory: " \o PathStr(current)))
            ELSE LET listed == SortedByKey({RemoteSortKey(e.remote, q) :
                                               q \in Children(e.remote, current)})
                     items == parents \o [i \in 1..Len(listed) |->
                                             _build_remote_entry(e.remote, listed[i], FALSE)]
                 IN Returned(SetEntries(pane, items))

\* _PaneState._normalize_tree_path: the resolved path, the path itself when resolve raises
_normalize_tree_path(f, path) ==
    IF IsSome(Resolve(f, path)) THEN Get(Resolve(f, path)) ELSE path

\* _PaneState._prune_tree_state: keep the collapsed paths strictly below root
_prune_tree_state(f, collapsed, root) ==
    LET normalized_root == _normalize_tree_path(f, root) IN
    {_normalize_tree_path(f, c) : c \in
        {c \in collapsed :
            LET n == _normalize_tree_path(f, c) IN
            n # normalized_root /\ IsPrefix(normalized_root, n)}}


\* the closure add_children of _refresh_tree_entries; acc carries the two things
\* the closure mutates: items and visited_dirs
add_children(f, collapsed, directory, depth, acc) ==
    LET normalized_dir == _normalize_tree_path(f, directory) IN
    IF normalized_dir \in acc.visited_dirs THEN acc
    ELSE LET acc1 == [acc EXCEPT !.visited_dirs = @ \cup {normalized_dir}] IN
         IF IsSome(ListError(f, directory)) THEN acc1
         ELSE Run("AddChildrenFrom", <<f, collapsed, directory, depth,
                              SortedListing(f, directory), 1, acc1>>)

\* the loop of add_children going into symlinked directories too
AddChildrenFollowingLinks(f, collapsed, directory, depth, children, i, acc) ==
    IF i > Len(children) THEN acc
    ELSE LET child == children[i]
             built == _build_entry(f, child, FALSE)
             is_collapsed == _normalize_tree_path(f, child) \in collapsed
             can_expand == built.is_dir
             entry == [built EXCEPT !.tree_depth = depth,
                                    !.tree_parent_path = Some(directory),
                                    !.tree_is_collapsed = can_expand /\ is_collapsed,
                                    !.tree_is_expanded = can_expand /\ ~is_collapsed]
             acc1 == [acc EXCEPT !.items = Append(@, entry)]
             acc2 == IF can_expand /\ ~is_collapsed
                     THEN Run("add_children", <<f, collapsed, child, depth + 1, acc1>>)
                     ELSE acc1
         IN Run("AddChildrenFrom", <<f, collapsed, directory, depth, children, i + 1, acc2>>)

\* the `for child in children` loop of add_children, from the i-th child on
AddChildrenFrom(f, collapsed, directory, depth, children, i, acc) ==
    IF i > Len(children) THEN acc
    ELSE LET child == children[i]
             built == _build_entry(f, child, FALSE)
             is_collapsed == _normalize_tree_path(f, child) \in collapsed
             can_expand == built.is_dir /\ ~built.is_symlink
             entry == [built EXCEPT !.tree_depth = depth,
                                    !.tree_parent_path = Some(directory),
                                    !.tree_is_collapsed = can_expand /\ is_collapsed,
                                    !.tree_is_expanded = can_expand /\ ~is_collapsed]
             acc1 == [acc EXCEPT !.items = Append(@, entry)]
             acc2 == IF can_expand /\ ~is_collapsed
                     THEN Run("add_children", <<f, collapsed, child, depth + 1, acc1>>)
                     ELSE acc1
         IN Run("AddChildrenFrom", <<f, collapsed, directory, depth, children, i + 1, acc2>>)

\* _PaneState._refresh_tree_entries
_refresh_tree_entries(pane, e) ==
    LET root == _normalize_tree_path(e.fs, pane.current_dir)
        collapsed == _prune_tree_state(e.fs, pane.tree_collapsed_paths, root)
        acc == Run("add_children", <<e.fs, collapsed, root, 0,
                            [items |-> <<>>, visited_dirs |-> {}]>>)
    IN Returned(SetEntries([pane EXCEPT !.tree_collapsed_paths = collapsed], acc.items))

\* _PaneState.refresh_entries
refresh_entries(pane, e, mode) ==
    IF pane.tree_mode_enabled /\ ~is_remote(pane) /\ mode = "TREE"
    THEN Run("_refresh_tree_entries", <<pane, e>>)
    ELSE IF is_remote(pane) THEN Run("_refresh_remote_entries", <<pane, e, mode>>)
    ELSE Run("_refresh_local_entries", <<pane, e, mode>>)

\* _PaneState.move_cursor
move_cursor(pane, delta) ==
    IF Len(pane.entries) = 0
    THEN [pane EXCEPT !.cursor_index = 0, !.scroll_offset = 0]
    ELSE [pane EXCEPT !.cursor_index =
                         Max(0, Min(pane.cursor_index + delta, Len(pane.entries) - 1))]

\* ensure_cursor_visible that scrolls a row too far when the cursor is below
ensure_cursor_visible_past(pane, viewport_height) ==
    IF viewport_height <= 0 THEN [pane EXCEPT !.scroll_offset = 0]
    ELSE LET followed ==
                 IF pane.cursor_index < pane.scroll_offset THEN pane.cursor_index
                 ELSE IF pane.cursor_index >= pane.scroll_offset + viewport_height
                 THEN pane.cursor_index + 1
                 ELSE pane.scroll_offset
             max_offset == Max(Len(pane.entries) - viewport_height, 0)
         IN [pane EXCEPT !.scroll_offset = Max(0, Min(followed, max_offset))]

\* ensure_cursor_visible that follows the cursor and stops there
ensure_cursor_visible_following(pane, viewport_height) ==
    IF viewport_height <= 0 THEN [pane EXCEPT !.scroll_offset = 0]
    ELSE [pane EXCEPT !.scroll_offset =
              IF pane.cursor_index < pane.scroll_offset THEN pane.cursor_index
              ELSE IF pane.cursor_index >= pane.scroll_offset + viewport_height
              THEN pane.cursor_index - viewport_height + 1
              ELSE pane.scroll_offset]

\* _PaneState.ensure_cursor_visible
ensure_cursor_visible(pane, viewport_height) ==
    IF viewport_height <= 0 THEN [pane EXCEPT !.scroll_offset = 0]
    ELSE LET followed ==
                 IF pane.cursor_index < pane.scroll_offset THEN pane.cursor_index
                 ELSE IF pane.cursor_index >= pane.scroll_offset + viewport_height
                 THEN pane.cursor_index - viewport_height + 1
                 ELSE pane.scroll_offset
             max_offset == Max(Len(pane.entries) - viewport_height, 0)
         IN [pane EXCEPT !.scroll_offset = Max(0, Min(followed, max_offset))]

\* _PaneState.selected_entry: None when there are no entries
selected_entry(pane) ==
    IF Len(pane.entries) = 0 THEN None ELSE Some(pane.entries[pane.cursor_index + 1])

\* expand_tree_at_cursor that expands every collapsed directory with the selected one
expand_tree_at_cursor_all(pane, f) ==
    LET entry == selected_entry(pane) IN
    IF ~pane.tree_mode_enabled THEN [pane |-> pane, result |-> FALSE]
    ELSE IF IsNone(entry) \/ ~Get(entry).is_dir \/ Get(entry).is_remote
    THEN [pane |-> pane, result |-> FALSE]
    ELSE LET normalized == _normalize_tree_path(f, Get(entry).path) IN
         IF normalized \in pane.tree_collapsed_paths
         THEN [pane |-> [pane EXCEPT !.tree_collapsed_paths = {}], result |-> TRUE]
         ELSE [pane |-> pane, result |-> FALSE]

\* _PaneState.expand_tree_at_cursor: [pane, result]
expand_tree_at_cursor(pane, f) ==
    LET entry == selected_entry(pane) IN
    IF ~pane.tree_mode_enabled THEN [pane |-> pane, result |-> FALSE]
    ELSE IF IsNone(entry) \/ ~Get(entry).is_dir \/ Get(entry).is_remote
    THEN [pane |-> pane, result |-> FALSE]
    ELSE LET normalized == _normalize_tree_path(f, Get(entry).path) IN
         IF normalized \in pane.tree_collapsed_paths
         THEN [pane |-> [pane EXCEPT !.tree_collapsed_paths = @ \ {normalized}],
               result |-> TRUE]
         ELSE [pane |-> pane, result |-> FALSE]

\* collapse_tree_at_cursor without the test for the tree root
collapse_tree_at_cursor_of_root(pane, f) ==
    LET entry == selected_entry(pane) IN
    IF ~pane.tree_mode_enabled \/ IsNone(entry) THEN [pane |-> pane, result |-> FALSE]
    ELSE LET target_path ==
                 IF Get(entry).is_dir /\ ~Get(entry).is_remote THEN Some(Get(entry).path)
                 ELSE Get(entry).tree_parent_path
         IN IF IsNone(target_path) THEN [pane |-> pane, result |-> FALSE]
            ELSE LET normalized_target == _normalize_tree_path(f, Get(target_path))
                 IN IF normalized_target \notin pane.tree_collapsed_paths
                    THEN [pane |-> [pane EXCEPT !.tree_collapsed_paths =
                                                   @ \cup {normalized_target}],
                          result |-> TRUE]
                    ELSE [pane |-> pane, result |-> FALSE]

\* _PaneState.collapse_tree_at_cursor: [pane, result]
collapse_tree_at_cursor(pane, f) ==
    LET entry == selected_entry(pane) IN
    IF ~pane.tree_mode_enabled \/ IsNone(entry) THEN [pane |-> pane, result |-> FALSE]
    ELSE LET target_path ==
                 IF Get(entry).is_dir /\ ~Get(entry).is_remote THEN Some(Get(entry).path)
                 ELSE Get(entry).tree_parent_path
         IN IF IsNone(target_path) THEN [pane |-> pane, result |-> FALSE]
            ELSE LET normalized_target == _normalize_tree_path(f, Get(target_path))
                     normalized_root == _normalize_tree_path(f, pane.current_dir)
                 IN IF normalized_target = normalized_root
                    THEN [pane |-> pane, result |-> FALSE]
                    ELSE IF normalized_target \notin pane.tree_collapsed_paths
                    THEN [pane |-> [pane EXCEPT !.tree_collapsed_paths =
                                                   @ \cup {normalized_target}],
                          result |-> TRUE]
                    ELSE [pane |-> pane, result |-> FALSE]

\* enter_selected leaving the cursor where it is
enter_selected_keeping_cursor(pane, e, mode) ==
    LET entry == selected_entry(pane) IN
    IF IsNone(entry) \/ ~Get(entry).is_dir THEN Returned(pane)
    ELSE IF ~is_remote(pane) /\ IsNone(Resolve(e.fs, Get(entry).path))
    THEN Raised(pane, Exc("OSError", "Too many levels of symbolic links"))
    ELSE LET dir == IF is_remote(pane) THEN Get(entry).path
                    ELSE Get(Resolve(e.fs, Get(entry).path))
             moved == [pane EXCEPT !.current_dir = dir,
                                   !.scroll_offset = 0,
                                   !.tree_collapsed_paths =
                                       IF pane.tree_mode_enabled THEN {} ELSE @]
         IN Run("refresh_entries", <<moved, e, mode>>)

\* _PaneState.enter_selected.  A local Path.resolve() that meets a symlink loop
\* raises OSError before anything is assigned
enter_selected(pane, e, mode) ==
    LET entry == selected_entry(pane) IN
    IF IsNone(entry) \/ ~Get(entry).is_dir THEN Returned(pane)
    ELSE IF ~is_remote(pane) /\ IsNone(Resolve(e.fs, Get(entry).path))
    THEN Raised(pane, Exc("OSError", "Too many levels of symbolic links"))
    ELSE LET dir == IF is_remote(pane) THEN Get(entry).path
                    ELSE Get(Resolve(e.fs, Get(entry).path))
             moved == [pane EXCEPT !.current_dir = dir,
                                   !.cursor_index = 0,
                                   !.scroll_offset = 0,
                                   !.tree_collapsed_paths =
                                       IF pane.tree_mode_enabled THEN {} ELSE @]
         IN Run("refresh_entries", <<moved, e, mode>>)

\* go_to_parent leaving the cursor where it is
go_to_parent_keeping_cursor(pane) ==
    [pane EXCEPT !.current_dir = Parent(pane.current_dir),
                 !.scroll_offset = 0,
                 !.tree_collapsed_paths = IF pane.tree_mode_enabled THEN {} ELSE @]

\* _PaneState.go_to_parent
go_to_parent(pane) ==
    [pane EXCEPT !.current_dir = Parent(pane.current_dir),
                 !.cursor_index = 0,
                 !.scroll_offset = 0,
                 !.tree_collapsed_paths = IF pane.tree_mode_enabled THEN {} ELSE @]

----------------------------------------------------------------------------
(* Filesystem calls.  Each yields [f, exc]: the filesystem it leaves and the
   exception it raised, None when it returned. *)

Done(f) == [f |-> f, exc |-> None]
Failed(f, type, msg) == [f |-> f, exc |-> Some(Exc(type, msg))]

\* where the node that p names lives: the directories of p resolved, its last
\* name kept (the call acts on a symlink itself, not on its target)
LPath(f, p) ==
    IF Len(p) = 0 THEN Some(Root)
    ELSE LET d == Resolve(f, Parent(p)) IN
         IF IsNone(d) THEN None ELSE Some(Join(Get(d), Name(p)))

LExists(f, p) == IsSome(LPath(f, p)) /\ Get(LPath(f, p)) \in DOMAIN f

\* Path.unlink()
Unlink(f, p) ==
    IF ~LExists(f, p)
    THEN Failed(f, "FileNotFoundError", "No such file or directory: " \o PathStr(p))
    ELSE IF f[Get(LPath(f, p))].kind = "dir"
    THEN Failed(f, "IsADirectoryError", "Is a directory: " \o PathStr(p))
    ELSE Done(Without(f, {Get(LPath(f, p))}))

\* shutil.rmtree(): an unreadable directory stops it; the model has it stop before
\* anything is removed, which is exact when the directory named is the unreadable one
RmTree(f, p) ==
    IF ~LExists(f, p)
    THEN Failed(f, "FileNotFoundError", "No such file or directory: " \o PathStr(p))
    ELSE LET at == Get(LPath(f, p)) IN
         CASE f[at].kind = "link" ->
                 Failed(f, "OSError", "Cannot call rmtree on a symbolic link")
           [] f[at].kind = "file" ->
                 Failed(f, "NotADirectoryError", "Not a directory: " \o PathStr(p))
           [] \E q \in Subtree(f, at) : ~f[q].r ->
                 Failed(f, "PermissionError", "Permission denied: " \o PathStr(p))
           [] OTHER -> Done(Without(f, Subtree(f, at)))

\* shutil.copy2(src, dst): the content of the file src names, written at dst
Copy2(f, src, dst) ==
    CASE StatKind(f, src) = "none" ->
            Failed(f, "FileNotFoundError", "No such file or directory: " \o PathStr(src))
      [] StatKind(f, src) = "dir" ->
            Failed(f, "IsADirectoryError", "Is a directory: " \o PathStr(src))
      [] IsNone(LPath(f, dst)) \/ ~IsDir(f, Parent(dst)) ->
            Failed(f, "FileNotFoundError", "No such file or directory: " \o PathStr(dst))
      [] OTHER ->
            Done(With(f, Get(LPath(f, dst)), FileNode(f[Get(Resolve(f, src))].data)))

\* the tree below `from` in f, laid under `to` in g
Graft(f, from, g, to) ==
    LET moved == {q \in Subtree(f, from) : TRUE}
        image(q) == to \o SubSeq(q, Len(from) + 1, Len(q))
        new == {image(q) : q \in moved}
    IN [n \in DOMAIN g \cup new |->
           IF n \in new THEN f[CHOOSE q \in moved : image(q) = n] ELSE g[n]]

\* shutil.copytree(src, dst): the listing of src is taken before dst is made, so a
\* copy into src's own directory copies what was there before.  As with rmtree, an
\* unreadable directory stops it before anything is made
CopyTree(f, src, dst) ==
    CASE IsSome(ListError(f, src)) ->
            [f |-> f, exc |-> ListError(f, src)]
      [] Exists(f, dst) ->
            Failed(f, "OSError", "File exists: " \o PathStr(dst))
      [] IsNone(LPath(f, dst)) \/ ~IsDir(f, Parent(dst)) ->
            Failed(f, "FileNotFoundError", "No such file or directory: " \o PathStr(dst))
      [] \E q \in Subtree(f, Get(Resolve(f, src))) : ~f[q].r ->
            Failed(f, "PermissionError", "Permission denied: " \o PathStr(src))
      [] OTHER ->
            Done(Graft(f, Get(Resolve(f, src)), f, Get(LPath(f, dst))))

\* a tree with a symlink in it is outside what the model copies
HasLink(f, p) == \E q \in Subtree(f, p) : f[q].kind = "link"

----------------------------------------------------------------------------
(* SSHConnection: the SFTP calls on the remote filesystem rf.  Every call raises
   IOError("Not connected to remote host") on a connection that is not connected. *)

NotConnected(rf) == Failed(rf, "OSError", "Not connected to remote host")

\* SSHConnection.exists
RemoteExists(conn, rf, p) == conn.is_connected /\ p \in DOMAIN rf

\* SSHConnection.remove
RemoteRemove(conn, rf, p) ==
    IF ~conn.is_connected THEN NotConnected(rf)
    ELSE IF p \notin DOMAIN rf \/ rf[p].kind = "dir"
    THEN Failed(rf, "OSError", "Failure")
    ELSE Done(Without(rf, {p}))

\* SSHConnection.rmdir
RemoteRmdir(conn, rf, p) ==
    IF ~conn.is_connected THEN NotConnected(rf)
    ELSE IF p \notin DOMAIN rf \/ rf[p].kind # "dir" \/ Children(rf, p) # {}
    THEN Failed(rf, "OSError", "Failure")
    ELSE Done(Without(rf, {p}))

\* SSHConnection.mkdir
RemoteMkdir(conn, rf, p) ==
    IF ~conn.is_connected THEN NotConnected(rf)
    ELSE IF p \in DOMAIN rf \/ Parent(p) \notin DOMAIN rf \/ rf[Parent(p)].kind # "dir"
    THEN Failed(rf, "OSError", "Failure")
    ELSE Done(With(rf, p, DirNode))

\* SSHConnection.rename
RemoteRename(conn, rf, old, new) ==
    IF ~conn.is_connected THEN NotConnected(rf)
    ELSE IF old \notin DOMAIN rf \/ new \in DOMAIN rf
    THEN Failed(rf, "OSError", "Failure")
    ELSE Done(Graft(rf, old, Without(rf, Subtree(rf, old)), new))

\* SSHConnection.open(path, 'w') and closing the file: an empty file
RemoteCreate(conn, rf, p) ==
    IF ~conn.is_connected THEN NotConnected(rf)
    ELSE IF Parent(p) \notin DOMAIN rf \/ rf[Parent(p)].kind # "dir"
            \/ (p \in DOMAIN rf /\ rf[p].kind = "dir")
    THEN Failed(rf, "OSError", "Failure")
    ELSE Done(With(rf, p, FileNode(0)))

----------------------------------------------------------------------------
(* The controller: DualPaneBrowser *)

\* BrowserMode and ALL_MODES
ALL_MODES == <<"FILE", "TREE", "GIT", "OWNER">>

\* BrowserMode.label
label(mode) ==
    CASE mode = "FILE" -> "File"
      [] mode = "TREE" -> "Tree"
      [] mode = "GIT" -> "Git"
      [] OTHER -> "Owner"

\* DualPaneBrowser.__init__
NewBrowser(left_root, right_root) ==
    [left |-> NewPane(left_root),
     right |-> NewPane(right_root),
     active_index |-> 0,
     status_message |-> None,
     command_buffer |-> "",
     in_command_mode |-> FALSE,
     show_help |-> FALSE,
     in_mode_prompt |-> FALSE,
     mode |-> "FILE",
     pending_action |-> None,
     in_rename_mode |-> FALSE,
     rename_buffer |-> "",
     in_create_mode |-> FALSE,
     create_buffer |-> "",
     create_is_dir |-> FALSE,
     in_ssh_connect_mode |-> FALSE,
     ssh_host_buffer |-> "",
     ssh_user_buffer |-> "",
     ssh_password_buffer |-> "",
     ssh_input_field |-> 0,
     ssh_last_connection |-> None,
     ssh_pending_connection |-> None,
     ssh_available_credentials |-> None]

\* the world a handler runs in: the controller, what it acts on, the exception in
\* flight, the log of external calls, and whether a bound of the model was passed
World(b, f, rf, g, cfg) ==
    [b |-> b, fs |-> f, remote |-> rf, git |-> g, config |-> cfg,
     exc |-> None, calls |-> <<>>, oob |-> FALSE]

EnvOf(w) == Env(w.fs, w.remote, w.git)

\* DualPaneBrowser._active_pane and _inactive_pane
_active_pane(b) == IF b.active_index = 0 THEN b.left ELSE b.right
_inactive_pane(b) == IF b.active_index = 0 THEN b.right ELSE b.left

WithActive(b, pane) ==
    IF b.active_index = 0 THEN [b EXCEPT !.left = pane] ELSE [b EXCEPT !.right = pane]

\* self.status_message = text
Status(w, text) == [w EXCEPT !.b.status_message = Some(text)]
Log(w, call) == [w EXCEPT !.calls = Append(@, call)]
Raise(w, e) == [w EXCEPT !.exc = Some(e)]

\* pane.refresh_entries(self.mode) on the left (side 0) or right (side 1) pane
RefreshSide(w, side) ==
    LET r == Run("refresh_entries", <<IF side = 0 THEN w.b.left ELSE w.b.right,
                             EnvOf(w), w.b.mode>>)
        b1 == IF side = 0 THEN [w.b EXCEPT !.left = r.pane]
              ELSE [w.b EXCEPT !.right = r.pane]
    IN [w EXCEPT !.b = b1, !.exc = r.exc]

\* DualPaneBrowser._refresh_panes: the left pane, then the right one; an exception
\* of the first leaves the second as it was
_refresh_panes(w) ==
    LET w1 == RefreshSide(w, 0) IN
    IF IsSome(w1.exc) THEN w1 ELSE RefreshSide(w1, 1)

\* DualPaneBrowser._refresh_pane(pane): turns the pane's tree projection on exactly
\* in Tree mode, then refreshes it
_refresh_pane(w, side) ==
    LET tree == w.b.mode = "TREE"
        b1 == IF side = 0 THEN [w.b EXCEPT !.left.tree_mode_enabled = tree]
              ELSE [w.b EXCEPT !.right.tree_mode_enabled = tree]
    IN RefreshSide([w EXCEPT !.b = b1], side)

\* _dismiss_overlays leaving the help overlay up
_dismiss_overlays_keeping_help(w) == [w EXCEPT !.b.in_mode_prompt = FALSE]

\* DualPaneBrowser._dismiss_overlays
_dismiss_overlays(w) == [w EXCEPT !.b.show_help = FALSE, !.b.in_mode_prompt = FALSE]

\* str(relative_path)
RelStr(p) == IF Len(p) = 0 THEN "." ELSE SubSeq(PathTail(p), 2, Len(PathTail(p)))

\* a closure stored for later: the function it is and the variables it captured
\* (rel_str is kept with the path it is the text of)
Closure(op, entry, entry_name, repo_root, rel) ==
    [op |-> op, entry |-> entry, entry_name |-> entry_name,
     repo_root |-> repo_root, rel |-> rel, rel_str |-> RelStr(rel)]

\* a bound method stored for later
Method(op) == Closure(op, None, "", Root, Root)

\* InputHandlersMixin._request_confirmation
_request_confirmation(w, message, action, on_decline, cancel_message) ==
    [w EXCEPT !.b.pending_action = Some([message |-> message,
                                         confirm_action |-> action,
                                         cancel_action |-> on_decline,
                                         cancel_message |-> cancel_message]),
              !.b.status_message = Some(message \o " (y/n)")]

----------------------------------------------------------------------------
(* FileOperationsMixin.  `io` is the set of external calls that fail in this
   step for a reason outside the model (disk full, read-only mount, ...). *)

IOError(msg) == Exc("OSError", msg)

\* sftp.listdir_attr in the order the server gives, which is arbitrary
RemoteListing(rf, p) == SortedByKey({RemoteSortKey(rf, q) : q \in Children(rf, p)})


\* removes the directory before what is in it
_delete_remote_dir_recursive_top_down(conn, rf, remote_path, log) ==
    IF ~conn.is_connected \/ RemoteListFails(rf, remote_path)
    THEN [f |-> rf, calls |-> log,
          exc |-> Some(IOError("Failed to list remote directory " \o PathStr(remote_path)))]
    ELSE LET d == RemoteRmdir(conn, rf, remote_path) IN
         IF IsSome(d.exc)
         THEN [f |-> d.f, calls |-> log,
               exc |-> Some(IOError("Failed to remove remote directory "
                                    \o PathStr(remote_path)))]
         ELSE Run("DeleteRemoteFrom", <<conn, d.f, RemoteListing(rf, remote_path), 1,
                                        Append(log, "rmdir " \o PathStr(remote_path))>>)

\* FileOperationsMixin._delete_remote_dir_recursive: [f, exc, calls]
_delete_remote_dir_recursive(conn, rf, remote_path, log) ==
    IF ~conn.is_connected \/ RemoteListFails(rf, remote_path)
    THEN [f |-> rf, calls |-> log,
          exc |-> Some(IOError("Failed to list remote directory " \o PathStr(remote_path)))]
    ELSE LET r == Run("DeleteRemoteFrom", <<conn, rf, RemoteListing(rf, remote_path), 1, log>>) IN
         IF IsSome(r.exc) THEN r
         ELSE LET d == RemoteRmdir(conn, r.f, remote_path) IN
              IF IsSome(d.exc)
              THEN [f |-> d.f, calls |-> r.calls,
                    exc |-> Some(IOError("Failed to remove remote directory "
                                         \o PathStr(remote_path)))]
              ELSE [f |-> d.f, calls |-> Append(r.calls, "rmdir " \o PathStr(remote_path)),
                    exc |-> None]

\* the `for name, attrs in entries` loop of _delete_remote_dir_recursive
DeleteRemoteFrom(conn, rf, entries, i, log) ==
    IF i > Len(entries) THEN [f |-> rf, calls |-> log, exc |-> None]
    ELSE LET full_path == entries[i]
             r == IF rf[full_path].kind = "dir"
                  THEN LET sub == Run("_delete_remote_dir_recursive", <<conn, rf, full_path, log>>) IN
                       IF IsSome(sub.exc)
                       THEN [sub EXCEPT !.exc =
                                Some(IOError("Failed to delete remote subdirectory "
                                             \o PathStr(full_path)))]
                       ELSE sub
                  ELSE LET rm == RemoteRemove(conn, rf, full_path) IN
                       IF IsSome(rm.exc)
                       THEN [f |-> rm.f, calls |-> log,
                             exc |-> Some(IOError("Failed to delete remote file "
                                                  \o PathStr(full_path)))]
                       ELSE [f |-> rm.f, calls |-> Append(log, "remove " \o PathStr(full_path)),
                             exc |-> None]
         IN IF IsSome(r.exc) THEN r
            ELSE Run("DeleteRemoteFrom", <<conn, r.f, entries, i + 1, r.calls>>)

\* the removal both do_delete and _move_entry make of `entry`: the statements
\* between `try:` and the status message.  Yields the world with w.exc set when a
\* call raised; "return" marks the early return on a pane without a connection
RemoveEntry(w, entry, io) ==
    IF entry.is_remote
    THEN LET pane == _active_pane(w.b) IN
         IF IsNone(pane.ssh_connection) THEN [w |-> w, returned |-> TRUE]
         ELSE LET conn == Get(pane.ssh_connection) IN
              IF "delete" \in io
              THEN [w |-> Raise(Log(w, "remote delete: raised"), IOError("I/O error")),
                    returned |-> FALSE]
              ELSE IF entry.is_dir
              THEN LET r == Run("_delete_remote_dir_recursive", <<conn, w.remote, entry.path, w.calls>>)
                   IN [w |-> [w EXCEPT !.remote = r.f, !.calls = r.calls, !.exc = r.exc],
                       returned |-> FALSE]
              ELSE LET r == RemoteRemove(conn, w.remote, entry.path) IN
                   [w |-> [Log(w, IF IsSome(r.exc) THEN "remove: raised"
                                  ELSE "remove " \o PathStr(entry.path))
                             EXCEPT !.remote = r.f, !.exc = r.exc],
                    returned |-> FALSE]
    ELSE IF "delete" \in io
    THEN [w |-> Raise(Log(w, "delete: raised"), IOError("I/O error")), returned |-> FALSE]
    ELSE LET r == IF entry.is_dir THEN Run("RmTree", <<w.fs, entry.path>>)
                  ELSE Run("Unlink", <<w.fs, entry.path>>)
         IN [w |-> [Log(w, IF IsSome(r.exc) THEN "delete: raised"
                           ELSE "delete " \o PathStr(entry.path))
                      EXCEPT !.fs = r.f, !.exc = r.exc],
             returned |-> FALSE]

\* the closure do_delete of _delete_entry, with the entry it captured
do_delete(w, c, io) ==
    LET entry == Get(c.entry)
        r == Run("RemoveEntry", <<w, entry, io>>)
    IN IF r.returned THEN Status(r.w, "No SSH connection.")
       ELSE LET w1 == IF IsNone(r.w.exc)
                      THEN Status(r.w, "Deleted " \o c.entry_name \o ".")
                      ELSE IF IsOSError(Get(r.w.exc))
                      THEN Status([r.w EXCEPT !.exc = None],
                                  "Delete failed: " \o Get(r.w.exc).msg)
                      ELSE r.w
            IN IF IsSome(w1.exc) THEN w1 ELSE Run("_refresh_panes", <<w1>>)

\* _delete_entry without the confirmation: the entry is removed at the key
_delete_entry_at_once(w) ==
    LET entry == selected_entry(_active_pane(w.b)) IN
    IF IsNone(entry) \/ Get(entry).is_parent THEN Status(w, "Nothing to delete.")
    ELSE Run("do_delete", <<w, Closure("do_delete", entry, _get_entry_name(Get(entry)),
                                       Root, Root), {}>>)

\* FileOperationsMixin._delete_entry
_delete_entry(w) ==
    LET entry == selected_entry(_active_pane(w.b)) IN
    IF IsNone(entry) \/ Get(entry).is_parent THEN Status(w, "Nothing to delete.")
    ELSE LET entry_name == _get_entry_name(Get(entry)) IN
         _request_confirmation(w, "Delete " \o entry_name \o "?",
                               Closure("do_delete", entry, entry_name, Root, Root),
                               None, "Cancelled.")

\* Path.mkdir(parents=True, exist_ok=True)
MkdirP(f, p) ==
    LET prefixes == {SubSeq(p, 1, n) : n \in 0..Len(p)} IN
    IF IsNone(Resolve(f, p)) \/ \E q \in prefixes : StatKind(f, q) \in {"file"}
    THEN Failed(f, "OSError", "File exists: " \o PathStr(p))
    ELSE Done([q \in DOMAIN f \cup {q \in prefixes : ~Exists(f, q)} |->
                  IF q \in DOMAIN f THEN f[q] ELSE DirNode])

\* FileOperationsMixin._copy_local_to_local
_copy_local_to_local(w, entry, dest_path) ==
    LET r == IF entry.is_dir THEN Run("CopyTree", <<w.fs, entry.path, dest_path>>)
             ELSE Run("Copy2", <<w.fs, entry.path, dest_path>>)
    IN [w EXCEPT !.fs = r.f, !.exc = r.exc,
                 !.oob = entry.is_dir /\ LExists(w.fs, entry.path)
                         /\ HasLink(w.fs, Get(LPath(w.fs, entry.path)))]

\* FileOperationsMixin._copy_remote_to_local with _copy_remote_dir_to_local and
\* SSHConnection.get_file
_copy_remote_to_local(w, entry, dest_path) ==
    LET src_ssh == _active_pane(w.b).ssh_connection IN
    IF IsNone(src_ssh) THEN Raise(w, IOError("No SSH connection for source"))
    ELSE IF entry.is_dir
    THEN LET made == Run("MkdirP", <<w.fs, dest_path>>) IN
         IF IsSome(made.exc) THEN [w EXCEPT !.exc = made.exc]
         ELSE IF ~Get(src_ssh).is_connected \/ RemoteListFails(w.remote, entry.path)
         THEN Raise([w EXCEPT !.fs = made.f],
                    IOError("Failed to list remote directory " \o PathStr(entry.path)))
         ELSE [w EXCEPT !.fs = Graft(w.remote, entry.path, made.f, dest_path),
                        !.oob = HasLink(w.remote, entry.path)]
    ELSE IF ~Get(src_ssh).is_connected
    THEN Raise(w, IOError("Not connected to remote host"))
    ELSE IF entry.path \notin DOMAIN w.remote \/ w.remote[entry.path].kind # "file"
            \/ ~IsDir(w.fs, Parent(dest_path))
    THEN Raise(w, IOError("Failure"))
    ELSE [w EXCEPT !.fs = With(w.fs, Get(LPath(w.fs, dest_path)),
                               FileNode(w.remote[entry.path].data))]

\* the upload half of a copy to the remote pane: mkdir and _copy_local_dir_to_remote,
\* or SSHConnection.put_file, of the local tree `from` in filesystem f
Upload(w, f, from, is_dir, dest_path) ==
    LET dst_ssh == _inactive_pane(w.b).ssh_connection IN
    IF IsNone(dst_ssh) THEN Raise(w, IOError("No SSH connection for destination"))
    ELSE IF is_dir
    THEN LET made == RemoteMkdir(Get(dst_ssh), w.remote, dest_path) IN
         IF IsSome(made.exc) THEN [w EXCEPT !.exc = made.exc]
         ELSE IF IsSome(ListError(f, from))
         THEN Raise([w EXCEPT !.remote = made.f],
                    IOError("Failed to list local directory " \o PathStr(from)))
         ELSE [w EXCEPT !.remote = Graft(f, Get(Resolve(f, from)), made.f, dest_path),
                        !.oob = HasLink(f, Get(Resolve(f, from)))]
    ELSE IF ~Get(dst_ssh).is_connected
    THEN Raise(w, IOError("Not connected to remote host"))
    ELSE IF StatKind(f, from) # "file" \/ Parent(dest_path) \notin DOMAIN w.remote
            \/ w.remote[Parent(dest_path)].kind # "dir"
    THEN Raise(w, IOError("Failure"))
    ELSE [w EXCEPT !.remote = With(w.remote, dest_path,
                                   FileNode(f[Get(Resolve(f, from))].data))]

\* FileOperationsMixin._copy_local_to_remote
_copy_local_to_remote(w, entry, dest_path) ==
    Run("Upload", <<w, w.fs, entry.path, entry.is_dir, dest_path>>)

\* FileOperationsMixin._copy_remote_to_remote: down into a temporary directory,
\* which is a filesystem of its own here, then up
_copy_remote_to_remote(w, entry, dest_path) ==
    LET tmp_path == <<_get_entry_name(entry)>>
        tmpfs == [q \in {Root} |-> DirNode]
        down == Run("_copy_remote_to_local", <<[w EXCEPT !.fs = tmpfs], entry, tmp_path>>)
    IN IF IsSome(down.exc) \/ down.oob THEN [w EXCEPT !.exc = down.exc, !.oob = down.oob]
       ELSE Run("Upload", <<w, down.fs, tmp_path, entry.is_dir, dest_path>>)

\* FileOperationsMixin._copy_entry
_copy_entry(w, io) ==
    LET entry == selected_entry(_active_pane(w.b))
        inactive == _inactive_pane(w.b)
    IN
    IF IsNone(entry) \/ Get(entry).is_parent THEN Status(w, "Nothing to copy.")
    ELSE
    LET e == Get(entry)
        entry_name == _get_entry_name(e)
        dest_path == Join(inactive.current_dir, entry_name)
        taken == IF is_remote(inactive)
                 THEN RemoteExists(Get(inactive.ssh_connection), w.remote, dest_path)
                 ELSE Exists(w.fs, dest_path)
    IN
    IF taken THEN Status(w, "Destination exists: " \o entry_name)
    ELSE
    LET src_remote == e.is_remote
        dst_remote == is_remote(inactive)
        copied == IF "copy" \in io THEN Raise(w, IOError("I/O error"))
                  ELSE IF ~src_remote /\ ~dst_remote THEN Run("_copy_local_to_local", <<w, e, dest_path>>)
                  ELSE IF src_remote /\ ~dst_remote THEN Run("_copy_remote_to_local", <<w, e, dest_path>>)
                  ELSE IF ~src_remote /\ dst_remote THEN Run("_copy_local_to_remote", <<w, e, dest_path>>)
                  ELSE Run("_copy_remote_to_remote", <<w, e, dest_path>>)
        logged == Log(copied, IF IsSome(copied.exc) THEN "copy: raised"
                              ELSE "copy " \o PathStr(e.path))
        shown == IF IsNone(logged.exc)
                 THEN Run("_refresh_panes", <<Status(logged, "Copied " \o entry_name \o ".")>>)
                 ELSE logged
    IN IF IsSome(shown.exc) /\ IsOSError(Get(shown.exc))
       THEN Status([shown EXCEPT !.exc = None], "Copy failed: " \o Get(shown.exc).msg)
       ELSE shown

\* _move_entry without the look at the copy's message: the source is removed
\* whatever the copy did
_move_entry_unchecked(w, io) ==
    LET entry == selected_entry(_active_pane(w.b)) IN
    IF IsNone(entry) \/ Get(entry).is_parent THEN Status(w, "Nothing to move.")
    ELSE
    LET e == Get(entry)
        copied == Run("_copy_entry", <<w, io>>)
        r == Run("RemoveEntry", <<copied, e, io \ {"copy"}>>)
    IN IF IsSome(copied.exc) \/ r.returned \/ IsSome(r.w.exc) THEN copied
       ELSE Run("_refresh_panes", <<r.w>>)

\* FileOperationsMixin._move_entry
_move_entry(w, io) ==
    LET entry == selected_entry(_active_pane(w.b)) IN
    IF IsNone(entry) \/ Get(entry).is_parent THEN Status(w, "Nothing to move.")
    ELSE
    LET e == Get(entry)
        entry_name == _get_entry_name(e)
        copied == Run("_copy_entry", <<w, io>>)
    IN
    IF IsSome(copied.exc) THEN copied
    ELSE IF IsSome(copied.b.status_message)
            /\ Contains(Lower(Get(copied.b.status_message)), "failed")
    THEN copied
    ELSE
    LET r == Run("RemoveEntry", <<copied, e, io>>) IN
    IF r.returned THEN Status(r.w, "Move failed: No SSH connection.")
    ELSE LET shown == IF IsNone(r.w.exc)
                      THEN Run("_refresh_panes", <<Status(r.w, "Moved " \o entry_name \o ".")>>)
                      ELSE r.w
         IN IF IsSome(shown.exc) /\ IsOSError(Get(shown.exc))
            THEN Status([shown EXCEPT !.exc = None], "Move failed: " \o Get(shown.exc).msg)
            ELSE shown

\* DualPaneBrowser._run_external: the command runs with curses suspended; whatever
\* it did, the overlays are dismissed and both panes refreshed
_run_external(w, command, io) ==
    LET ran == IF "spawn" \in io
               THEN Status(Log(w, "run: raised"), "Command failed: I/O error")
               ELSE Status(Log(w, "run " \o command), "Ran " \o command)
    IN Run("_refresh_panes", <<_dismiss_overlays(ran)>>)

\* FileOperationsMixin._view_file
_view_file(w, io) ==
    LET entry == selected_entry(_active_pane(w.b)) IN
    IF IsNone(entry) \/ Get(entry).is_dir \/ Get(entry).is_parent
    THEN Status(w, "Select a file to view.")
    ELSE LET e == Get(entry)
             pane == _active_pane(w.b)
         IN IF ~e.is_remote THEN Run("_run_external", <<w, "less " \o PathStr(e.path), io>>)
            ELSE IF IsNone(pane.ssh_connection) THEN Status(w, "No SSH connection.")
            ELSE IF ~Get(pane.ssh_connection).is_connected
                    \/ e.path \notin DOMAIN w.remote \/ w.remote[e.path].kind # "file"
            THEN Status(Log(w, "get_file: raised"), "View failed: Failure")
            ELSE LET shown == Run("_run_external", <<Log(w, "get_file " \o PathStr(e.path)),
                                            "less /tmp/" \o _get_entry_name(e), io>>)
                 IN IF IsSome(shown.exc) /\ IsOSError(Get(shown.exc))
                    THEN Status([shown EXCEPT !.exc = None],
                                "View failed: " \o Get(shown.exc).msg)
                    ELSE shown

\* FileOperationsMixin._open_in_editor.  Whether the editor changed the file is the
\* user's choice: "edit" in io
_open_in_editor(w, io) ==
    LET entry == selected_entry(_active_pane(w.b)) IN
    IF IsNone(entry) \/ Get(entry).is_dir \/ Get(entry).is_parent
    THEN Status(w, "Select a file to edit.")
    ELSE LET e == Get(entry)
             pane == _active_pane(w.b)
             written(f) == IF "edit" \in io /\ "spawn" \notin io /\ LExists(f, e.path)
                              /\ f[Get(LPath(f, e.path))].kind = "file"
                           THEN With(f, Get(LPath(f, e.path)),
                                     FileNode(1 - f[Get(LPath(f, e.path))].data))
                           ELSE f
         IN IF ~e.is_remote
            THEN Run("_run_external", <<[w EXCEPT !.fs = written(w.fs)],
                               "vi " \o PathStr(e.path), io>>)
            ELSE IF IsNone(pane.ssh_connection) THEN Status(w, "No SSH connection.")
            ELSE IF ~Get(pane.ssh_connection).is_connected
                    \/ e.path \notin DOMAIN w.remote \/ w.remote[e.path].kind # "file"
            THEN Status(Log(w, "get_file: raised"), "Edit failed: Failure")
            ELSE LET edited == Run("_run_external", <<Log(w, "get_file " \o PathStr(e.path)),
                                             "vi /tmp/" \o _get_entry_name(e), io>>)
                     after ==
                         IF IsSome(edited.exc) THEN edited
                         ELSE IF "edit" \in io /\ "spawn" \notin io
                         THEN Run("_refresh_panes", <<
                                 Status([Log(edited, "put_file " \o PathStr(e.path))
                                           EXCEPT !.remote = With(edited.remote, e.path,
                                                     FileNode(1 - edited.remote[e.path].data))],
                                        "Uploaded changes to " \o _get_entry_name(e) \o ".")>>)
                         ELSE Status(edited, "No changes made.")
                 IN IF IsSome(after.exc) /\ IsOSError(Get(after.exc))
                    THEN Status([after EXCEPT !.exc = None],
                                "Edit failed: " \o Get(after.exc).msg)
                    ELSE after

\* os.rename(old, new): new is replaced when it is there, unless one of the two
\* is a directory and the other is not, or new is a directory that is not empty
Rename(f, old, new) ==
    IF ~LExists(f, old)
    THEN Failed(f, "FileNotFoundError", "No such file or directory: " \o PathStr(old))
    ELSE IF IsNone(LPath(f, new)) \/ ~IsDir(f, Parent(new))
    THEN Failed(f, "FileNotFoundError", "No such file or directory: " \o PathStr(new))
    ELSE LET from == Get(LPath(f, old))
             to == Get(LPath(f, new))
         IN IF to \in DOMAIN f /\ f[from].kind = "dir" /\ f[to].kind # "dir"
            THEN Failed(f, "NotADirectoryError", "Not a directory: " \o PathStr(new))
            ELSE IF to \in DOMAIN f /\ f[from].kind # "dir" /\ f[to].kind = "dir"
            THEN Failed(f, "IsADirectoryError", "Is a directory: " \o PathStr(new))
            ELSE IF to \in DOMAIN f /\ to # from /\ Children(f, to) # {}
            THEN Failed(f, "OSError", "Directory not empty: " \o PathStr(new))
            ELSE Done(Graft(f, from, Without(f, Subtree(f, from) \cup {to}), to))

\* Path.mkdir(parents=True) of a path that does not exist
Mkdir(f, p) ==
    IF LExists(f, p) THEN Failed(f, "OSError", "File exists: " \o PathStr(p))
    ELSE IF IsDir(f, Parent(p)) THEN Done(With(f, Get(LPath(f, p)), DirNode))
    ELSE Run("MkdirP", <<f, p>>)

\* Path.touch()
Touch(f, p) ==
    IF ~IsDir(f, Parent(p))
    THEN Failed(f, "FileNotFoundError", "No such file or directory: " \o PathStr(p))
    ELSE IF Exists(f, p) THEN Done(f)
    ELSE LET at == IF IsSymlink(f, Get(LPath(f, p))) THEN Get(Resolve(f, p))
                   ELSE Get(LPath(f, p))
         IN IF IsDir(f, Parent(at)) THEN Done(With(f, at, FileNode(0)))
            ELSE Failed(f, "FileNotFoundError", "No such file or directory: " \o PathStr(p))

\* FileOperationsMixin._start_rename
_start_rename(w) ==
    LET entry == selected_entry(_active_pane(w.b)) IN
    IF IsNone(entry) \/ Get(entry).is_parent THEN Status(w, "Select an item to rename.")
    ELSE Status([w EXCEPT !.b.in_rename_mode = TRUE,
                          !.b.rename_buffer = _get_entry_name(Get(entry))],
                "Enter new name (Enter to confirm, Esc to cancel):")

\* the except clause of _execute_rename and _execute_create
Caught(w, prefix) ==
    IF IsSome(w.exc) /\ IsOSError(Get(w.exc))
    THEN Status([w EXCEPT !.exc = None], prefix \o Get(w.exc).msg)
    ELSE w

\* FileOperationsMixin._execute_rename
_execute_rename(w, io) ==
    LET new_name == Strip(w.b.rename_buffer)
        w0 == [w EXCEPT !.b.in_rename_mode = FALSE, !.b.rename_buffer = ""]
        entry == selected_entry(_active_pane(w0.b))
        pane == _active_pane(w0.b)
    IN
    IF new_name = "" THEN Status(w0, "Rename cancelled (empty name).")
    ELSE IF IsNone(entry) THEN w0
    ELSE
    LET e == Get(entry)
        new_path == Join(Parent(e.path), new_name)
        taken_msg == "'" \o new_name \o "' already exists."
        done_msg == "Renamed to '" \o new_name \o "'."
    IN
    IF e.is_remote
    THEN IF IsNone(pane.ssh_connection) THEN Status(w0, "No SSH connection.")
         ELSE IF RemoteExists(Get(pane.ssh_connection), w0.remote, new_path)
         THEN Status(w0, taken_msg)
         ELSE LET r == IF "rename" \in io THEN Failed(w0.remote, "OSError", "I/O error")
                       ELSE RemoteRename(Get(pane.ssh_connection), w0.remote, e.path, new_path)
                  w1 == [Log(w0, IF IsSome(r.exc) THEN "rename: raised"
                                 ELSE "rename " \o PathStr(e.path))
                           EXCEPT !.remote = r.f, !.exc = r.exc]
              IN Caught(IF IsSome(w1.exc) THEN w1 ELSE Run("_refresh_panes", <<Status(w1, done_msg)>>),
                        "Rename failed: ")
    ELSE IF Exists(w0.fs, new_path) THEN Status(w0, taken_msg)
    ELSE LET r == IF "rename" \in io THEN Failed(w0.fs, "OSError", "I/O error")
                  ELSE Run("Rename", <<w0.fs, e.path, new_path>>)
             w1 == [Log(w0, IF IsSome(r.exc) THEN "rename: raised"
                            ELSE "rename " \o PathStr(e.path))
                      EXCEPT !.fs = r.f, !.exc = r.exc]
         IN Caught(IF IsSome(w1.exc) THEN w1 ELSE Run("_refresh_panes", <<Status(w1, done_msg)>>),
                   "Rename failed: ")

\* FileOperationsMixin._create_file
_create_file(w) ==
    Status([w EXCEPT !.b.in_create_mode = TRUE, !.b.create_buffer = "",
                     !.b.create_is_dir = FALSE],
           "New file name (Enter to create, Esc to cancel):")

\* FileOperationsMixin._create_directory
_create_directory(w) ==
    Status([w EXCEPT !.b.in_create_mode = TRUE, !.b.create_buffer = "",
                     !.b.create_is_dir = TRUE],
           "New directory name (Enter to create, Esc to cancel):")

\* FileOperationsMixin._execute_create
_execute_create(w, io) ==
    LET name == Strip(w.b.create_buffer)
        w0 == [w EXCEPT !.b.in_create_mode = FALSE, !.b.create_buffer = ""]
        pane == _active_pane(w0.b)
        target == Join(pane.current_dir, name)
        taken_msg == "'" \o name \o "' already exists."
        done_msg == IF w0.b.create_is_dir THEN "Created directory '" \o name \o "'."
                    ELSE "Created file '" \o name \o "'."
    IN
    IF name = "" THEN Status(w0, "Cancelled (empty name).")
    ELSE IF is_remote(pane)
    THEN IF RemoteExists(Get(pane.ssh_connection), w0.remote, target)
         THEN Status(w0, taken_msg)
         ELSE LET r == IF "create" \in io THEN Failed(w0.remote, "OSError", "I/O error")
                       ELSE IF w0.b.create_is_dir
                       THEN RemoteMkdir(Get(pane.ssh_connection), w0.remote, target)
                       ELSE RemoteCreate(Get(pane.ssh_connection), w0.remote, target)
                  w1 == [Log(w0, IF IsSome(r.exc) THEN "create: raised"
                                 ELSE "create " \o PathStr(target))
                           EXCEPT !.remote = r.f, !.exc = r.exc]
              IN Caught(IF IsSome(w1.exc) THEN w1 ELSE Run("_refresh_panes", <<Status(w1, done_msg)>>),
                        "Create failed: ")
    ELSE IF Exists(w0.fs, target) THEN Status(w0, taken_msg)
    ELSE LET r == IF "create" \in io THEN Failed(w0.fs, "OSError", "I/O error")
                  ELSE IF w0.b.create_is_dir THEN Run("Mkdir", <<w0.fs, target>>)
                  ELSE Run("Touch", <<w0.fs, target>>)
             w1 == [Log(w0, IF IsSome(r.exc) THEN "create: raised"
                            ELSE "create " \o PathStr(target))
                      EXCEPT !.fs = r.f, !.exc = r.exc]
         IN Caught(IF IsSome(w1.exc) THEN w1 ELSE Run("_refresh_panes", <<Status(w1, done_msg)>>),
                   "Create failed: ")

----------------------------------------------------------------------------
(* GitOperationsMixin.  The repository is g = [root, head, index]: where it is,
   and the content of each path in the HEAD commit and in the index. *)

\* GitOperationsMixin._git_context: [w, context], context None after a message
_git_context(w, entry) ==
    IF entry.is_remote
    THEN [w |-> Raise(w, Exc("AttributeError", "'str' object has no attribute 'resolve'")),
          context |-> None]
    ELSE
    LET resolved == Resolve(w.fs, entry.path) IN
    IF IsNone(resolved)
    THEN [w |-> Status(w, "Cannot resolve path: Too many levels of symbolic links"),
          context |-> None]
    ELSE
    LET search_dir == IF entry.is_dir THEN Get(resolved) ELSE Parent(Get(resolved))
        top == RevParseToplevel(w.fs, w.git, search_dir)
    IN IF IsNone(top)
       THEN [w |-> Status(w, "Not inside a git repository."), context |-> None]
       ELSE IF ~IsPrefix(Get(top), Get(resolved))
       THEN [w |-> Status(w, "Item is outside the repository."), context |-> None]
       ELSE [w |-> w,
             context |-> Some([repo_root |-> Get(top),
                               relative |-> SubSeq(Get(resolved), Len(Get(top)) + 1,
                                                   Len(Get(resolved)))])]

\* the paths a pathspec names among the paths in `known`
Matching(known, repo_root, rel) == {p \in known : IsPrefix(repo_root \o rel, p)}

\* f with the regular file p holding d, the directories above it made
WriteFile(f, p, d) ==
    LET above == {SubSeq(p, 1, n) : n \in 0..(Len(p) - 1)} IN
    [q \in DOMAIN f \cup above \cup {p} |->
        IF q = p THEN FileNode(d) ELSE IF q \in DOMAIN f THEN f[q] ELSE DirNode]

RECURSIVE WriteFiles(_, _, _)
WriteFiles(f, m, todo) ==
    IF todo = {} THEN f
    ELSE LET p == CHOOSE q \in todo : TRUE IN
         WriteFiles(WriteFile(f, p, m[p]), m, todo \ {p})

\* git add that succeeds and leaves the index as it is
GitAddNothing(f, g, repo_root, rel) == [g |-> g, ok |-> TRUE]

\* git add -- rel
GitAdd(f, g, repo_root, rel) ==
    LET work == {p \in DOMAIN f : f[p].kind = "file"}
        here == Matching(work, repo_root, rel)
        gone == Matching(DOMAIN g.index, repo_root, rel) \ here
    IN IF here = {} /\ gone = {} /\ (repo_root \o rel) \notin DOMAIN f
       THEN [g |-> g, ok |-> FALSE]
       ELSE [g |-> [g EXCEPT !.index = [p \in (DOMAIN g.index \ gone) \cup here |->
                                           IF p \in here THEN f[p].data ELSE g.index[p]]],
             ok |-> TRUE]

\* git restore --staged -- rel
GitRestoreStaged(g, repo_root, rel) ==
    LET named == Matching(DOMAIN g.index \cup DOMAIN g.head, repo_root, rel)
        kept == (DOMAIN g.index \ named) \cup (named \cap DOMAIN g.head)
    IN IF named = {} THEN [g |-> g, ok |-> FALSE]
       ELSE [g |-> [g EXCEPT !.index = [p \in kept |->
                                           IF p \in named THEN g.head[p] ELSE g.index[p]]],
             ok |-> TRUE]

\* git restore --worktree --source=HEAD -- rel
GitRestoreWorktree(f, g, repo_root, rel) ==
    LET named == Matching(DOMAIN g.index \cup DOMAIN g.head, repo_root, rel)
        back == named \cap DOMAIN g.head
        away == {p \in named \ DOMAIN g.head : p \in DOMAIN f /\ f[p].kind = "file"}
    IN IF named = {} THEN [f |-> f, ok |-> FALSE]
       ELSE [f |-> WriteFiles(Without(f, away), g.head, back), ok |-> TRUE]

\* GitOperationsMixin._run_git_command: [w, ok]
_run_git_command(w, io, arguments, r) ==
    IF "git" \in io
    THEN [w |-> Status(Log(w, "git: raised"), "Git command failed: I/O error"), ok |-> FALSE]
    ELSE IF ~r.ok
    THEN [w |-> Status(Log(w, "git " \o arguments \o ": exit 1"),
                       "Git command failed: fatal: pathspec did not match any files"),
          ok |-> FALSE]
    ELSE [w |-> Log(w, "git " \o arguments), ok |-> TRUE]

\* GitOperationsMixin._git_stage_entry
_git_stage_entry(w, io) ==
    LET entry == selected_entry(_active_pane(w.b)) IN
    IF IsNone(entry) \/ Get(entry).is_parent THEN Status(w, "Select an item to stage.")
    ELSE LET c == Run("_git_context", <<w, Get(entry)>>) IN
         IF IsNone(c.context) THEN c.w
         ELSE LET repo_root == Get(c.context).repo_root
                  rel == Get(c.context).relative
                  rel_str == RelStr(rel)
                  r == GitAdd(w.fs, w.git, repo_root, rel)
                  ran == _run_git_command(w, io, "add -- " \o rel_str, r)
              IN IF ~ran.ok THEN ran.w
                 ELSE Run("_refresh_panes", <<Status([ran.w EXCEPT !.git = r.g],
                                            "Staged " \o rel_str \o ".")>>)

\* GitOperationsMixin._git_unstage_entry
_git_unstage_entry(w, io) ==
    LET entry == selected_entry(_active_pane(w.b)) IN
    IF IsNone(entry) \/ Get(entry).is_parent THEN Status(w, "Select an item to unstage.")
    ELSE IF Get(entry).git_status = Some("??")
    THEN Status(w, "File is untracked; nothing to unstage.")
    ELSE LET c == Run("_git_context", <<w, Get(entry)>>) IN
         IF IsNone(c.context) THEN c.w
         ELSE LET repo_root == Get(c.context).repo_root
                  rel == Get(c.context).relative
                  rel_str == RelStr(rel)
                  r == GitRestoreStaged(w.git, repo_root, rel)
                  ran == _run_git_command(w, io, "restore --staged -- " \o rel_str, r)
              IN IF ~ran.ok THEN ran.w
                 ELSE Run("_refresh_panes", <<Status([ran.w EXCEPT !.git = r.g],
                                            "Unstaged " \o rel_str \o ".")>>)

\* the closure do_restore of _git_restore_entry, with repo_root and rel_str as it
\* captured them
do_restore(w, c, io) ==
    LET r == GitRestoreWorktree(w.fs, w.git, c.repo_root, c.rel)
        ran == _run_git_command(w, io,
                                "restore --worktree --source=HEAD -- " \o c.rel_str, r)
    IN IF ~ran.ok THEN ran.w
       ELSE Run("_refresh_panes", <<Status([ran.w EXCEPT !.fs = r.f],
                                  "Restored " \o c.rel_str \o " to HEAD.")>>)

\* GitOperationsMixin._git_restore_entry
_git_restore_entry(w) ==
    LET entry == selected_entry(_active_pane(w.b)) IN
    IF IsNone(entry) \/ Get(entry).is_parent THEN Status(w, "Select an item to restore.")
    ELSE LET c == Run("_git_context", <<w, Get(entry)>>) IN
         IF IsNone(c.context) THEN c.w
         ELSE _request_confirmation(
                  w, "Restore " \o Name(Get(entry).path) \o " to HEAD?",
                  Closure("do_restore", None, "", Get(c.context).repo_root,
                          Get(c.context).relative),
                  None, "Cancelled.")

\* the tail that diff, log and blame share: the output goes to a temporary file and
\* the pager shows it; an OSError on the way becomes the status message
Paged(w, io, what, suffix) ==
    LET shown == Run("_run_external", <<w, "less -R /tmp/out" \o suffix, io>>) IN
    IF IsSome(shown.exc) /\ IsOSError(Get(shown.exc))
    THEN Status([shown EXCEPT !.exc = None], what \o " failed: " \o Get(shown.exc).msg)
    ELSE shown

\* GitOperationsMixin._git_diff_entry
_git_diff_entry(w, io) ==
    LET entry == selected_entry(_active_pane(w.b)) IN
    IF IsNone(entry) \/ Get(entry).is_parent THEN Status(w, "Select a file to diff.")
    ELSE IF Get(entry).is_dir THEN Status(w, "Diff is only available for files.")
    ELSE LET c == Run("_git_context", <<w, Get(entry)>>) IN
         IF IsNone(c.context) THEN c.w
         ELSE LET at == Get(c.context).repo_root \o Get(c.context).relative
                  rel_str == RelStr(Get(c.context).relative)
                  tracked == at \in DOMAIN w.git.head \cup DOMAIN w.git.index
                  differs == IF Get(entry).git_status = Some("??") THEN TRUE
                             ELSE tracked /\ Lookup(w.git.head, at) # WorkFile(w.fs, at)
              IN IF "git" \in io
                 THEN Status(Log(w, "git: raised"), "Git diff failed: I/O error")
                 ELSE IF ~differs
                 THEN Status(Log(w, "git diff " \o rel_str),
                             "No differences for " \o rel_str \o ".")
                 ELSE Run("Paged", <<Log(w, "git diff " \o rel_str), io, "Git diff", ".diff">>)

\* GitOperationsMixin._git_commit
_git_commit(w, io) ==
    LET top == RevParseToplevel(w.fs, w.git, _active_pane(w.b).current_dir) IN
    IF "git" \in io THEN Status(Log(w, "git: raised"), "Git not available: I/O error")
    ELSE IF IsNone(top) THEN Status(w, "Not in a git repository.")
    ELSE IF w.git.index = w.git.head THEN Status(w, "No staged changes to commit.")
    ELSE LET edited == Run("_run_external", <<w, "vi /tmp/msg.txt", io>>)
             after ==
                 IF IsSome(edited.exc) THEN edited
                 ELSE IF "edit" \notin io \/ "spawn" \in io
                 THEN Status(edited, "Commit cancelled (empty message).")
                 ELSE IF "commit" \in io
                 THEN Status(Log(edited, "git commit: exit 1"), "Commit failed: error")
                 ELSE Run("_refresh_panes", <<
                          Status([Log(edited, "git commit")
                                    EXCEPT !.git.head = edited.git.index],
                                 "Commit created successfully.")>>)
         IN IF IsSome(after.exc) /\ IsOSError(Get(after.exc))
            THEN Status([after EXCEPT !.exc = None], "Commit failed: " \o Get(after.exc).msg)
            ELSE after

\* GitOperationsMixin._git_log_entry
_git_log_entry(w, io) ==
    LET entry == selected_entry(_active_pane(w.b)) IN
    IF IsNone(entry) \/ Get(entry).is_parent THEN Status(w, "Select an item to view log.")
    ELSE LET c == Run("_git_context", <<w, Get(entry)>>) IN
         IF IsNone(c.context) THEN c.w
         ELSE LET rel_str == RelStr(Get(c.context).relative)
                  history == Matching(DOMAIN w.git.head, Get(c.context).repo_root,
                                      Get(c.context).relative)
              IN IF "git" \in io
                 THEN Status(Log(w, "git: raised"), "Git log failed: I/O error")
                 ELSE IF history = {}
                 THEN Status(Log(w, "git log " \o rel_str),
                             "No commits found for " \o rel_str \o ".")
                 ELSE Run("Paged", <<Log(w, "git log " \o rel_str), io, "Git log", ".log">>)

\* GitOperationsMixin._git_blame_entry
_git_blame_entry(w, io) ==
    LET entry == selected_entry(_active_pane(w.b)) IN
    IF IsNone(entry) \/ Get(entry).is_parent \/ Get(entry).is_dir
    THEN Status(w, "Select a file to blame.")
    ELSE LET c == Run("_git_context", <<w, Get(entry)>>) IN
         IF IsNone(c.context) THEN c.w
         ELSE LET rel_str == RelStr(Get(c.context).relative)
                  at == Get(c.context).repo_root \o Get(c.context).relative
              IN IF "git" \in io
                 THEN Status(Log(w, "git: raised"), "Git blame failed: I/O error")
                 ELSE IF at \notin DOMAIN w.git.head
                 THEN Status(Log(w, "git blame " \o rel_str \o ": exit 128"),
                             "Git blame failed: fatal: no such path in HEAD")
                 ELSE Run("Paged", <<Log(w, "git blame " \o rel_str), io, "Git blame", ".blame">>)

----------------------------------------------------------------------------
(* InputHandlersMixin.  A key is a string: a printable character is the string of
   that character, any other key goes by its name.  A handler yields [w, handled]. *)

\* the curses key codes above 255
CursesKeys == {"KEY_UP", "KEY_DOWN", "KEY_PPAGE", "KEY_NPAGE", "KEY_RIGHT", "KEY_LEFT",
               "KEY_BTAB", "KEY_ENTER", "KEY_BACKSPACE", "KEY_RESIZE"}
\* the control characters: 9, 10, 27 and 127
ControlKeys == {"TAB", "ENTER", "ESC", "DEL"}

\* 0 <= key_code <= 255 and chr(key_code).isprintable()
IsPrintable(k) == Len(k) = 1
\* 0 <= key_code <= 255
IsByte(k) == k \notin CursesKeys
IsEnter(k) == k \in {"KEY_ENTER", "ENTER"}
IsBackspace(k) == k \in {"KEY_BACKSPACE", "DEL"}

Handled(w) == [w |-> w, handled |-> TRUE]
Unhandled(w) == [w |-> w, handled |-> FALSE]

\* the pane a handler holds in `pane`, put back where it came from
SetPane(w, side, pane) ==
    IF side = 0 THEN [w EXCEPT !.b.left = pane] ELSE [w EXCEPT !.b.right = pane]

\* InputHandlersMixin._refresh_active_pane
_refresh_active_pane(w) ==
    LET r == Run("_refresh_pane", <<w, w.b.active_index>>) IN
    IF IsNone(r.exc)
    THEN Status(r, "Refreshed " \o PathStr(_active_pane(r.b).current_dir))
    ELSE IF Get(r.exc).type \in {"PermissionError", "FileNotFoundError"}
    THEN Status([r EXCEPT !.exc = None], Get(r.exc).msg)
    ELSE r

\* InputHandlersMixin._expand_tree_cursor: [w, handled]
_expand_tree_cursor(w) ==
    LET pane == _active_pane(w.b) IN
    IF w.b.mode # "TREE" \/ ~pane.tree_mode_enabled THEN Unhandled(w)
    ELSE LET r == expand_tree_at_cursor(pane, w.fs) IN
         IF r.result
         THEN Handled(Run("_refresh_pane", <<SetPane(w, w.b.active_index, r.pane), w.b.active_index>>))
         ELSE Unhandled(SetPane(w, w.b.active_index, r.pane))

\* InputHandlersMixin._collapse_tree_cursor: [w, handled]
_collapse_tree_cursor(w) ==
    LET pane == _active_pane(w.b) IN
    IF w.b.mode # "TREE" \/ ~pane.tree_mode_enabled THEN Unhandled(w)
    ELSE LET r == Run("collapse_tree_at_cursor", <<pane, w.fs>>) IN
         IF r.result
         THEN Handled(Run("_refresh_pane", <<SetPane(w, w.b.active_index, r.pane), w.b.active_index>>))
         ELSE Unhandled(SetPane(w, w.b.active_index, r.pane))

\* InputHandlersMixin._start_command_mode
_start_command_mode(w) ==
    Status([w EXCEPT !.b.in_command_mode = TRUE, !.b.command_buffer = ""],
           "Enter a command and press Enter.")

\* InputHandlersMixin._execute_command.  The shell runs the command; the commands
\* the model types touch none of the files it tracks
_execute_command(w, io) ==
    LET command == Strip(w.b.command_buffer)
        w0 == [w EXCEPT !.b.in_command_mode = FALSE, !.b.command_buffer = ""]
        pane == _active_pane(w0.b)
    IN IF command = "" THEN Status(w0, "No command entered.")
       ELSE IF is_remote(pane)
       THEN IF "spawn" \in io
            THEN Status(Log(w0, "exec_command: raised"), "Remote command execution failed.")
            ELSE Status(Log(w0, "exec_command " \o command),
                        "Remote command exited with code 0.")
       ELSE IF "spawn" \in io
       THEN Status(Log(w0, "sh: raised"), "Command execution failed.")
       ELSE Status(Log(w0, "sh " \o command), "Command exited with code 0.")

\* _handle_mode_command leaving the overlays up for the git commands
_handle_mode_command_over_help(w, k, io) ==
    LET d == _dismiss_overlays(w) IN
    CASE k \in {"d", "D"} -> Handled(_delete_entry(d))
      [] k \in {"c", "C"} -> Handled(Run("_copy_entry", <<d, io>>))
      [] k \in {"t", "T"} -> Handled(Run("_move_entry", <<d, io>>))
      [] k \in {"v", "V"} -> Handled(Run("_view_file", <<d, io>>))
      [] k \in {"e", "E"} -> Handled(Run("_open_in_editor", <<d, io>>))
      [] k \in {"a", "A"} -> Handled(Run("_git_stage_entry", <<w, io>>))
      [] k \in {"u", "U"} -> Handled(Run("_git_unstage_entry", <<w, io>>))
      [] k \in {"r", "R"} -> Handled(Run("_git_restore_entry", <<w>>))
      [] k \in {"g", "G"} -> Handled(Run("_git_diff_entry", <<w, io>>))
      [] k \in {"o", "O"} -> Handled(Run("_git_commit", <<w, io>>))
      [] k \in {"l", "L"} -> Handled(Run("_git_log_entry", <<w, io>>))
      [] k \in {"b", "B"} -> Handled(Run("_git_blame_entry", <<w, io>>))
      [] OTHER -> Unhandled(w)

\* InputHandlersMixin._handle_mode_command: [w, handled]
_handle_mode_command(w, k, io) ==
    LET d == _dismiss_overlays(w) IN
    CASE k \in {"d", "D"} -> Handled(_delete_entry(d))
      [] k \in {"c", "C"} -> Handled(Run("_copy_entry", <<d, io>>))
      [] k \in {"t", "T"} -> Handled(Run("_move_entry", <<d, io>>))
      [] k \in {"v", "V"} -> Handled(Run("_view_file", <<d, io>>))
      [] k \in {"e", "E"} -> Handled(Run("_open_in_editor", <<d, io>>))
      [] k \in {"a", "A"} -> Handled(Run("_git_stage_entry", <<d, io>>))
      [] k \in {"u", "U"} -> Handled(Run("_git_unstage_entry", <<d, io>>))
      [] k \in {"r", "R"} -> Handled(Run("_git_restore_entry", <<d>>))
      [] k \in {"g", "G"} -> Handled(Run("_git_diff_entry", <<d, io>>))
      [] k \in {"o", "O"} -> Handled(Run("_git_commit", <<d, io>>))
      [] k \in {"l", "L"} -> Handled(Run("_git_log_entry", <<d, io>>))
      [] k \in {"b", "B"} -> Handled(Run("_git_blame_entry", <<d, io>>))
      [] OTHER -> Unhandled(w)

\* _handle_mode_selection_key refreshing the panes for the current mode as well
_handle_mode_selection_key_refreshing(w, k) ==
    IF k = "ESC"
    THEN Handled(Status([w EXCEPT !.b.in_mode_prompt = FALSE], "Mode selection cancelled."))
    ELSE IF IsByte(k) /\ \E i \in 1..Len(ALL_MODES) :
                            Lower(k) = Lower(CharAt(label(ALL_MODES[i]), 1))
    THEN LET candidate == ALL_MODES[CHOOSE i \in 1..Len(ALL_MODES) :
                                        Lower(k) = Lower(CharAt(label(ALL_MODES[i]), 1))]
             w1 == Run("_refresh_pane", <<[w EXCEPT !.b.mode = candidate], 0>>)
             w2 == IF IsSome(w1.exc) THEN w1 ELSE Run("_refresh_pane", <<w1, 1>>)
         IN IF IsSome(w2.exc) THEN Handled(w2)
            ELSE IF candidate # w.b.mode
            THEN Handled([Status(w2, "Switched to " \o label(candidate) \o " mode.")
                            EXCEPT !.b.in_mode_prompt = FALSE])
            ELSE Handled([Status(w2, "Already in " \o label(w.b.mode) \o " mode.")
                            EXCEPT !.b.in_mode_prompt = FALSE])
    ELSE Unhandled(w)

\* InputHandlersMixin._handle_mode_selection_key: [w, handled]
_handle_mode_selection_key(w, k) ==
    IF k = "ESC"
    THEN Handled(Status([w EXCEPT !.b.in_mode_prompt = FALSE], "Mode selection cancelled."))
    ELSE IF IsByte(k) /\ \E i \in 1..Len(ALL_MODES) :
                            Lower(k) = Lower(CharAt(label(ALL_MODES[i]), 1))
    THEN LET candidate == ALL_MODES[CHOOSE i \in 1..Len(ALL_MODES) :
                                        Lower(k) = Lower(CharAt(label(ALL_MODES[i]), 1))]
         IN IF candidate # w.b.mode
            THEN LET w1 == Run("_refresh_pane", <<[w EXCEPT !.b.mode = candidate], 0>>)
                     w2 == IF IsSome(w1.exc) THEN w1 ELSE Run("_refresh_pane", <<w1, 1>>)
                 IN IF IsSome(w2.exc) THEN Handled(w2)
                    ELSE Handled([Status(w2, "Switched to " \o label(candidate) \o " mode.")
                                    EXCEPT !.b.in_mode_prompt = FALSE])
            ELSE Handled([Status(w, "Already in " \o label(w.b.mode) \o " mode.")
                            EXCEPT !.b.in_mode_prompt = FALSE])
    ELSE Unhandled(w)

\* os.getenv("USER", "user")
USER == "u"
\* Path.home()
Home == Root

\* SSHConnection(hostname, username) after connect() returned
Connection(host, user) == [hostname |-> host, username |-> user, is_connected |-> TRUE]

\* config.get_ssh_credentials(hostname): {"username": ..., "password": ...} or None
get_ssh_credentials(cfg, host) == Lookup(cfg.credentials, host)

\* config.save_ssh_credentials(hostname, username, password)
save_ssh_credentials(cfg, host, user, password) ==
    [cfg EXCEPT !.credentials =
        [h \in DOMAIN cfg.credentials \cup {host} |->
            IF h = host THEN [username |-> user, password |-> password]
            ELSE cfg.credentials[h]]]

\* InputHandlersMixin._start_ssh_connect
_start_ssh_connect(w) ==
    Status([w EXCEPT !.b.in_ssh_connect_mode = TRUE,
                     !.b.ssh_host_buffer = "",
                     !.b.ssh_user_buffer = USER,
                     !.b.ssh_password_buffer = "",
                     !.b.ssh_input_field = 0,
                     !.b.ssh_available_credentials = None],
           "SSH: Will try agent keys first, then password. Use SSH agent for security!")

\* the finally clause of _execute_ssh_connect
SshConnectFinally(w) ==
    IF IsNone(w.b.ssh_pending_connection)
    THEN [w EXCEPT !.b.in_ssh_connect_mode = FALSE,
                   !.b.ssh_host_buffer = "",
                   !.b.ssh_user_buffer = "",
                   !.b.ssh_password_buffer = "",
                   !.b.ssh_input_field = 0]
    ELSE w

\* InputHandlersMixin._execute_ssh_connect.  SSHConnection.connect raises
\* SSHException("Unknown host key ...") for a host that is not in known_hosts unless
\* auto_add_host_key is set ("unknown_host" in io), raises for a host that refuses
\* ("connect" in io), and returns otherwise
_execute_ssh_connect(w, io, auto_add_host_key) ==
    LET host == Strip(w.b.ssh_host_buffer)
        typed == Strip(w.b.ssh_user_buffer)
        user == IF typed = "" THEN USER ELSE typed
        password == IF w.b.ssh_password_buffer # "" THEN Some(w.b.ssh_password_buffer)
                    ELSE None
        side == w.b.active_index
    IN
    IF host = ""
    THEN [Status(w, "Host cannot be empty.") EXCEPT !.b.in_ssh_connect_mode = FALSE]
    ELSE IF "unknown_host" \in io /\ ~auto_add_host_key
    THEN SshConnectFinally(
             _request_confirmation(
                 [Log(w, "connect " \o host \o ": unknown host key")
                    EXCEPT !.b.ssh_pending_connection =
                               Some([host |-> host, user |-> user, password |-> password])],
                 "Unknown host key for " \o host
                     \o "! Accept and connect? (Check fingerprint first!)",
                 Method("_approve_host_key_and_connect"), None, "Cancelled."))
    ELSE IF "connect" \in io
    THEN SshConnectFinally(
             [Status(Log(w, "connect " \o host \o ": raised"),
                     "SSH connection failed: Authentication failed")
                EXCEPT !.b.ssh_last_connection = None])
    ELSE
    LET pane == [_active_pane(w.b) EXCEPT !.ssh_connection = Some(Connection(host, user)),
                                          !.current_dir = Root,
                                          !.cursor_index = 0,
                                          !.scroll_offset = 0]
        listed == Run("_refresh_pane", <<SetPane(Log(w, "connect " \o host), side, pane), side>>)
        saved_creds == get_ssh_credentials(w.config, host)
        offer == IsNone(saved_creds) \/ Get(saved_creds).username # user
                 \/ Get(saved_creds).password # password
        warning_msg == "Save SSH credentials for " \o host \o "?"
                       \o (IF IsSome(password)
                           THEN " WARNING: Password will be stored in PLAINTEXT!"
                           ELSE " (username only, use SSH agent for keys)")
        connected == Status(listed, "Connected to " \o user \o "@" \o host)
    IN SshConnectFinally(
           IF IsSome(listed.exc)
           THEN [Status([listed EXCEPT !.exc = None],
                        "SSH connection failed: " \o Get(listed.exc).msg)
                   EXCEPT !.b.ssh_last_connection = None]
           ELSE IF offer
           THEN _request_confirmation(
                    [connected EXCEPT !.b.ssh_last_connection =
                        Some([host |-> host, user |-> user,
                              password |-> IF IsSome(password) THEN Get(password) ELSE ""])],
                    warning_msg, Method("_save_ssh_credentials_confirmed"),
                    None, "Cancelled.")
           ELSE connected)

\* InputHandlersMixin._disconnect_ssh.  SSHConnection.disconnect closes the SFTP
\* channel and then the client: "sftp.close" in io raises before anything is
\* changed, "client.close" raises with the channel already dropped, which leaves
\* is_connected False on a connection the pane still holds
_disconnect_ssh(w, io) ==
    LET pane == _active_pane(w.b)
        side == w.b.active_index
    IN IF ~is_remote(pane) THEN Status(w, "No SSH connection to disconnect.")
       ELSE IF "sftp.close" \in io
       THEN Status(Log(w, "disconnect: raised"), "Error disconnecting: I/O error")
       ELSE IF "client.close" \in io
       THEN Status(SetPane(Log(w, "disconnect: raised"), side,
                           [pane EXCEPT !.ssh_connection =
                                            Some([Get(@) EXCEPT !.is_connected = FALSE])]),
                   "Error disconnecting: I/O error")
       ELSE LET home == [pane EXCEPT !.ssh_connection = None,
                                     !.current_dir = Home,
                                     !.cursor_index = 0,
                                     !.scroll_offset = 0]
                listed == Run("_refresh_pane", <<SetPane(Log(w, "disconnect"), side, home), side>>)
            IN IF IsSome(listed.exc)
               THEN Status([listed EXCEPT !.exc = None],
                           "Error disconnecting: " \o Get(listed.exc).msg)
               ELSE Status(listed, "Disconnected from SSH.")

\* InputHandlersMixin._detect_available_credentials: None, or what was found
_detect_available_credentials(w, host) ==
    LET saved_creds == get_ssh_credentials(w.config, host)
        agent_available == w.config.agent
        username == IF IsSome(saved_creds) /\ Get(saved_creds).username # ""
                    THEN Get(saved_creds).username
                    ELSE IF w.b.ssh_user_buffer # "" THEN w.b.ssh_user_buffer ELSE USER
        password == IF IsSome(saved_creds) /\ IsSome(Get(saved_creds).password)
                    THEN Get(Get(saved_creds).password) ELSE ""
    IN IF IsNone(saved_creds) /\ ~agent_available THEN None
       ELSE Some([host |-> host, username |-> username, password |-> password,
                  sources |-> (IF IsSome(saved_creds) THEN <<"saved config">> ELSE <<>>)
                              \o (IF agent_available THEN <<"SSH agent">> ELSE <<>>),
                  saved_credentials |-> saved_creds])

\* InputHandlersMixin._format_credential_sources, for the one or two sources there are
_format_credential_sources(sources) ==
    CASE Len(sources) = 0 -> "unknown source"
      [] Len(sources) = 1 -> sources[1]
      [] OTHER -> sources[1] \o " and " \o sources[2]

\* InputHandlersMixin._handle_host_field_exit: [w, handled]
\* leaves the host field without asking
_handle_host_field_exit_unasked(w) == Unhandled(w)

_handle_host_field_exit(w) ==
    LET host == Strip(w.b.ssh_host_buffer)
        available == _detect_available_credentials(w, host)
    IN IF host = "" \/ IsNone(available) THEN Unhandled(w)
       ELSE Handled(_request_confirmation(
                [w EXCEPT !.b.ssh_available_credentials = available],
                "Credentials available for " \o host \o " via "
                    \o _format_credential_sources(Get(available).sources)
                    \o ". Override them?",
                Method("_begin_manual_credentials_override"),
                Some(Method("_connect_with_available_credentials")),
                "Connecting with existing credentials..."))

\* InputHandlersMixin._begin_manual_credentials_override
_begin_manual_credentials_override(w) ==
    LET available == w.b.ssh_available_credentials
        saved_username == IF IsSome(available) /\ IsSome(Get(available).saved_credentials)
                          THEN Get(Get(available).saved_credentials).username ELSE ""
    IN Status([w EXCEPT !.b.ssh_user_buffer = IF saved_username # "" THEN saved_username
                                              ELSE @,
                        !.b.ssh_password_buffer = "",
                        !.b.ssh_input_field = 1,
                        !.b.ssh_available_credentials = None],
              "Override selected. Enter SSH username.")

\* InputHandlersMixin._connect_with_available_credentials
_connect_with_available_credentials(w, io) ==
    LET available == w.b.ssh_available_credentials IN
    IF IsNone(available) THEN Status(w, "No credentials available; enter them manually.")
    ELSE Run("_execute_ssh_connect", <<
             Status([w EXCEPT !.b.ssh_user_buffer =
                                  IF Get(available).username # "" THEN Get(available).username
                                  ELSE IF @ # "" THEN @ ELSE USER,
                              !.b.ssh_password_buffer = Get(available).password,
                              !.b.ssh_available_credentials = None],
                    "Connecting with available credentials..."),
             io, FALSE>>)

\* InputHandlersMixin._approve_host_key_and_connect
_approve_host_key_and_connect(w, io) ==
    IF IsNone(w.b.ssh_pending_connection) THEN w
    ELSE LET pending == Get(w.b.ssh_pending_connection) IN
         Run("_execute_ssh_connect", <<
             [w EXCEPT !.b.ssh_pending_connection = None,
                       !.b.ssh_host_buffer = pending.host,
                       !.b.ssh_user_buffer = pending.user,
                       !.b.ssh_password_buffer = IF IsSome(pending.password)
                                                 THEN Get(pending.password) ELSE ""],
             io, TRUE>>)

\* InputHandlersMixin._save_ssh_credentials_confirmed
_save_ssh_credentials_confirmed(w) ==
    IF IsNone(w.b.ssh_last_connection) THEN w
    ELSE LET last == Get(w.b.ssh_last_connection) IN
         Status([Log(w, "save_ssh_credentials " \o last.host)
                   EXCEPT !.config = save_ssh_credentials(
                                         w.config, last.host, last.user,
                                         IF last.password # "" THEN Some(last.password)
                                         ELSE None),
                          !.b.ssh_last_connection = None],
                IF last.password # ""
                THEN "Saved credentials for " \o last.host \o " (password in plaintext!)"
                ELSE "Saved username for " \o last.host)

\* calling a stored callable
Call(w, c, io) ==
    CASE c.op = "do_delete" -> Run("do_delete", <<w, c, io>>)
      [] c.op = "do_restore" -> Run("do_restore", <<w, c, io>>)
      [] c.op = "_begin_manual_credentials_override" -> _begin_manual_credentials_override(w)
      [] c.op = "_connect_with_available_credentials" ->
             Run("_connect_with_available_credentials", <<w, io>>)
      [] c.op = "_approve_host_key_and_connect" -> Run("_approve_host_key_and_connect", <<w, io>>)
      [] c.op = "_save_ssh_credentials_confirmed" -> _save_ssh_credentials_confirmed(w)

\* _handle_confirmation_key taking every key it handles for a yes
_handle_confirmation_key_any(w, k, io) ==
    IF IsNone(w.b.pending_action) THEN Unhandled(w)
    ELSE LET pending == Get(w.b.pending_action)
             cleared == [w EXCEPT !.b.pending_action = None]
         IN IF k \in {"y", "Y", "n", "N", "ESC"}
            THEN Handled(Run("Call", <<cleared, pending.confirm_action, io>>))
            ELSE Unhandled(w)

\* InputHandlersMixin._handle_confirmation_key: [w, handled]
_handle_confirmation_key(w, k, io) ==
    IF IsNone(w.b.pending_action) THEN Unhandled(w)
    ELSE LET pending == Get(w.b.pending_action)
             cleared == [w EXCEPT !.b.pending_action = None]
         IN IF k \in {"y", "Y"} THEN Handled(Run("Call", <<cleared, pending.confirm_action, io>>))
            ELSE IF k \in {"n", "N", "ESC"}
            THEN IF IsSome(pending.cancel_action)
                 THEN Handled(Run("Call", <<cleared, Get(pending.cancel_action), io>>))
                 ELSE Handled(Status(cleared, pending.cancel_message))
            ELSE Unhandled(w)

\* the submit_action of a _TextInputModeConfig
Submit(w, submit_action, io) ==
    CASE submit_action = "_execute_command" -> _execute_command(w, io)
      [] submit_action = "_execute_rename" -> Run("_execute_rename", <<w, io>>)
      [] submit_action = "_execute_create" -> Run("_execute_create", <<w, io>>)

\* _handle_text_input_mode that keeps the letter q out of the buffer
_handle_text_input_mode_without_q(w, k, mode, io) ==
    IF k = "KEY_RESIZE" THEN Handled(w)
    ELSE IF k = "ESC"
    THEN Handled(Status([w EXCEPT !.b[mode.active_flag] = FALSE,
                                  !.b[mode.buffer_attr] = ""],
                        mode.cancel_message))
    ELSE IF IsEnter(k) THEN Handled(Run("Submit", <<w, mode.submit_action, io>>))
    ELSE IF IsBackspace(k)
    THEN Handled([w EXCEPT !.b[mode.buffer_attr] = DropLast(@)])
    ELSE IF IsPrintable(k) /\ k \notin {"q", "Q"}
    THEN Handled([w EXCEPT !.b[mode.buffer_attr] = @ \o k,
                           !.oob = Len(w.b[mode.buffer_attr]) >= MaxBuf])
    ELSE Unhandled(w)

\* InputHandlersMixin._handle_text_input_mode: [w, handled]
_handle_text_input_mode(w, k, mode, io) ==
    IF k = "KEY_RESIZE" THEN Handled(w)
    ELSE IF k = "ESC"
    THEN Handled(Status([w EXCEPT !.b[mode.active_flag] = FALSE,
                                  !.b[mode.buffer_attr] = ""],
                        mode.cancel_message))
    ELSE IF IsEnter(k) THEN Handled(Run("Submit", <<w, mode.submit_action, io>>))
    ELSE IF IsBackspace(k)
    THEN Handled([w EXCEPT !.b[mode.buffer_attr] = DropLast(@)])
    ELSE IF IsPrintable(k)
    THEN Handled([w EXCEPT !.b[mode.buffer_attr] = @ \o k,
                           !.oob = Len(w.b[mode.buffer_attr]) >= MaxBuf])
    ELSE Unhandled(w)

\* _TextInputModeConfig
_TextInputModeConfig(active_flag, buffer_attr, cancel_message, submit_action) ==
    [active_flag |-> active_flag, buffer_attr |-> buffer_attr,
     cancel_message |-> cancel_message, submit_action |-> submit_action]

\* InputHandlersMixin._handle_command_key
_handle_command_key(w, k, io) ==
    Run("_handle_text_input_mode", <<w, k, _TextInputModeConfig(
        "in_command_mode", "command_buffer", "Command cancelled.", "_execute_command"), io>>)

\* InputHandlersMixin._handle_rename_key
_handle_rename_key(w, k, io) ==
    Run("_handle_text_input_mode", <<w, k, _TextInputModeConfig(
        "in_rename_mode", "rename_buffer", "Rename cancelled.", "_execute_rename"), io>>)

\* InputHandlersMixin._handle_create_key
_handle_create_key(w, k, io) ==
    Run("_handle_text_input_mode", <<w, k, _TextInputModeConfig(
        "in_create_mode", "create_buffer", "Create cancelled.", "_execute_create"), io>>)

\* the buffer of the SSH field that has the focus
SshBuffer(field) ==
    CASE field = 0 -> "ssh_host_buffer"
      [] field = 1 -> "ssh_user_buffer"
      [] OTHER -> "ssh_password_buffer"

\* InputHandlersMixin._handle_ssh_connect_key: [w, handled]
\* Tab advances without wrapping
_handle_ssh_connect_key_unwrapped(w, k, io) ==
    LET field == w.b.ssh_input_field
        exit == IF field = 0 THEN Run("_handle_host_field_exit", <<w>>) ELSE Unhandled(w)
    IN
    IF k = "KEY_RESIZE" THEN Handled(w)
    ELSE IF k = "ESC"
    THEN Handled(Status([w EXCEPT !.b.in_ssh_connect_mode = FALSE,
                                  !.b.ssh_host_buffer = "",
                                  !.b.ssh_user_buffer = "",
                                  !.b.ssh_password_buffer = "",
                                  !.b.ssh_input_field = 0],
                        "SSH connection cancelled."))
    ELSE IF IsEnter(k)
    THEN IF exit.handled THEN exit
         ELSE IF field < 2 THEN Handled([w EXCEPT !.b.ssh_input_field = field + 1])
         ELSE Handled(Run("_execute_ssh_connect", <<w, io, FALSE>>))
    ELSE IF k = "TAB"
    THEN IF exit.handled THEN exit
         ELSE Handled([w EXCEPT !.b.ssh_input_field = field + 1])
    ELSE IF IsBackspace(k) /\ field \in 0..2
    THEN Handled([w EXCEPT !.b[SshBuffer(field)] = DropLast(@)])
    ELSE IF IsBackspace(k) THEN Handled(w)
    ELSE IF IsPrintable(k) /\ field \in 0..2
    THEN Handled([w EXCEPT !.b[SshBuffer(field)] = @ \o k,
                           !.oob = Len(w.b[SshBuffer(field)]) >= MaxBuf])
    ELSE IF IsPrintable(k) THEN Handled(w)
    ELSE Unhandled(w)

_handle_ssh_connect_key(w, k, io) ==
    LET field == w.b.ssh_input_field
        exit == IF field = 0 THEN Run("_handle_host_field_exit", <<w>>) ELSE Unhandled(w)
    IN
    IF k = "KEY_RESIZE" THEN Handled(w)
    ELSE IF k = "ESC"
    THEN Handled(Status([w EXCEPT !.b.in_ssh_connect_mode = FALSE,
                                  !.b.ssh_host_buffer = "",
                                  !.b.ssh_user_buffer = "",
                                  !.b.ssh_password_buffer = "",
                                  !.b.ssh_input_field = 0],
                        "SSH connection cancelled."))
    ELSE IF IsEnter(k)
    THEN IF exit.handled THEN exit
         ELSE IF field < 2 THEN Handled([w EXCEPT !.b.ssh_input_field = field + 1])
         ELSE Handled(Run("_execute_ssh_connect", <<w, io, FALSE>>))
    ELSE IF k = "TAB"
    THEN IF exit.handled THEN exit
         ELSE Handled([w EXCEPT !.b.ssh_input_field = (field + 1) % 3])
    ELSE IF IsBackspace(k) /\ field \in 0..2
    THEN Handled([w EXCEPT !.b[SshBuffer(field)] = DropLast(@)])
    ELSE IF IsBackspace(k) THEN Handled(w)
    ELSE IF IsPrintable(k) /\ field \in 0..2
    THEN Handled([w EXCEPT !.b[SshBuffer(field)] = @ \o k,
                           !.oob = Len(w.b[SshBuffer(field)]) >= MaxBuf])
    ELSE IF IsPrintable(k) THEN Handled(w)
    ELSE Unhandled(w)

PAGE_SCROLL_LINES == 5

\* InputHandlersMixin._handle_navigation_key: [w, handled]
_handle_navigation_key(w, k, io) ==
    LET side == w.b.active_index
        pane == _active_pane(w.b)
    IN
    CASE k \in {"KEY_UP", "k"} -> Handled(SetPane(w, side, move_cursor(pane, -1)))
      [] k \in {"KEY_DOWN", "j"} -> Handled(SetPane(w, side, move_cursor(pane, 1)))
      [] k = "KEY_PPAGE" -> Handled(SetPane(w, side, move_cursor(pane, -PAGE_SCROLL_LINES)))
      [] k = "KEY_NPAGE" -> Handled(SetPane(w, side, move_cursor(pane, PAGE_SCROLL_LINES)))
      [] k = "TAB" -> Handled([w EXCEPT !.b.active_index = 1 - @])
      [] k = "KEY_RIGHT" -> Handled([w EXCEPT !.b.active_index = 1])
      [] k \in {"KEY_LEFT", "KEY_BTAB"} -> Handled([w EXCEPT !.b.active_index = 0])
      [] k \in {"h", "H"} ->
             Handled([w EXCEPT !.b.show_help = ~@,
                               !.b.in_mode_prompt = FALSE,
                               !.b.in_command_mode = FALSE,
                               !.b.in_rename_mode = FALSE,
                               !.b.in_create_mode = FALSE,
                               !.b.status_message = IF ~w.b.show_help
                                                    THEN Some("Help displayed.") ELSE None])
      [] k = "n" /\ ~w.b.show_help -> Handled(_start_rename(_dismiss_overlays(w)))
      [] k = "f" /\ ~w.b.show_help -> Handled(_create_file(_dismiss_overlays(w)))
      [] k = "F" /\ ~w.b.show_help -> Handled(_create_directory(_dismiss_overlays(w)))
      [] k \in {"m", "M"} ->
             Handled(Status([w EXCEPT !.b.in_mode_prompt = TRUE,
                                      !.b.show_help = FALSE,
                                      !.b.in_command_mode = FALSE],
                            "Select a mode."))
      [] k = ":" /\ ~w.b.show_help /\ ~w.b.in_mode_prompt -> Handled(_start_command_mode(w))
      [] IsEnter(k) ->
             LET r == Run("enter_selected", <<pane, EnvOf(w), w.b.mode>>)
                 w1 == SetPane(w, side, r.pane)
             IN IF IsNone(r.exc) THEN Handled([w1 EXCEPT !.b.status_message = None])
                ELSE IF Get(r.exc).type \in {"PermissionError", "FileNotFoundError"}
                THEN Handled([w1 EXCEPT !.b.status_message =
                                 IF pane.current_dir # r.pane.current_dir THEN None
                                 ELSE Some(Get(r.exc).msg)])
                ELSE Handled([w1 EXCEPT !.exc = r.exc])
      [] k = "+" /\ Run("_expand_tree_cursor", <<w>>).handled -> Run("_expand_tree_cursor", <<w>>)
      [] k = "-" /\ Run("_collapse_tree_cursor", <<w>>).handled -> Run("_collapse_tree_cursor", <<w>>)
      [] IsBackspace(k) ->
             LET r == Run("_refresh_pane", <<SetPane(w, side, go_to_parent(pane)), side>>) IN
             IF IsNone(r.exc) THEN Handled([r EXCEPT !.b.status_message = None])
             ELSE IF Get(r.exc).type = "PermissionError"
             THEN Handled(Status([r EXCEPT !.exc = None], Get(r.exc).msg))
             ELSE Handled(r)
      [] k = "s" -> Handled(Run("_refresh_active_pane", <<_dismiss_overlays(w)>>))
      [] k = "S" -> Handled(_start_ssh_connect(_dismiss_overlays(w)))
      [] k \in {"x", "X"} -> Handled(Run("_disconnect_ssh", <<_dismiss_overlays(w), io>>))
      [] OTHER ->
             LET after == IF k = "+" THEN Run("_expand_tree_cursor", <<w>>).w
                          ELSE IF k = "-" THEN Run("_collapse_tree_cursor", <<w>>).w
                          ELSE w
                 r == Run("_handle_mode_command", <<after, k, io>>)
             IN IF r.handled THEN r
                ELSE IF k = "KEY_RESIZE" THEN Handled(after)
                ELSE Unhandled(after)

----------------------------------------------------------------------------
(* Calling a method: Run(name, <<arguments>>) is the value the method `name` of
   the program returns for the arguments *)

Run(op, x) ==
    CASE op = "collect_git_status" -> collect_git_status(x[1], x[2], x[3])
      [] op = "LocalListError" -> LocalListError(x[1], x[2])
      [] op = "_attach_git_status" -> _attach_git_status(x[1], x[2], x[3])
      [] op = "_refresh_local_entries" -> _refresh_local_entries(x[1], x[2], x[3])
      [] op = "_refresh_remote_entries" -> _refresh_remote_entries(x[1], x[2], x[3])
      [] op = "add_children" -> add_children(x[1], x[2], x[3], x[4], x[5])
      [] op = "AddChildrenFrom" -> AddChildrenFrom(x[1], x[2], x[3], x[4], x[5], x[6], x[7])
      [] op = "_refresh_tree_entries" -> _refresh_tree_entries(x[1], x[2])
      [] op = "refresh_entries" -> refresh_entries(x[1], x[2], x[3])
      [] op = "collapse_tree_at_cursor" -> collapse_tree_at_cursor(x[1], x[2])
      [] op = "enter_selected" -> enter_selected(x[1], x[2], x[3])
      [] op = "Unlink" -> Unlink(x[1], x[2])
      [] op = "RmTree" -> RmTree(x[1], x[2])
      [] op = "Copy2" -> Copy2(x[1], x[2], x[3])
      [] op = "CopyTree" -> CopyTree(x[1], x[2], x[3])
      [] op = "_refresh_panes" -> _refresh_panes(x[1])
      [] op = "_refresh_pane" -> _refresh_pane(x[1], x[2])
      [] op = "_delete_remote_dir_recursive" -> _delete_remote_dir_recursive(x[1], x[2], x[3], x[4])
      [] op = "DeleteRemoteFrom" -> DeleteRemoteFrom(x[1], x[2], x[3], x[4], x[5])
      [] op = "RemoveEntry" -> RemoveEntry(x[1], x[2], x[3])
      [] op = "do_delete" -> do_delete(x[1], x[2], x[3])
      [] op = "MkdirP" -> MkdirP(x[1], x[2])
      [] op = "_copy_local_to_local" -> _copy_local_to_local(x[1], x[2], x[3])
      [] op = "_copy_remote_to_local" -> _copy_remote_to_local(x[1], x[2], x[3])
      [] op = "Upload" -> Upload(x[1], x[2], x[3], x[4], x[5])
      [] op = "_copy_local_to_remote" -> _copy_local_to_remote(x[1], x[2], x[3])
      [] op = "_copy_remote_to_remote" -> _copy_remote_to_remote(x[1], x[2], x[3])
      [] op = "_copy_entry" -> _copy_entry(x[1], x[2])
      [] op = "_move_entry" -> _move_entry(x[1], x[2])
      [] op = "_run_external" -> _run_external(x[1], x[2], x[3])
      [] op = "_view_file" -> _view_file(x[1], x[2])
      [] op = "_open_in_editor" -> _open_in_editor(x[1], x[2])
      [] op = "Rename" -> Rename(x[1], x[2], x[3])
      [] op = "Mkdir" -> Mkdir(x[1], x[2])
      [] op = "Touch" -> Touch(x[1], x[2])
      [] op = "_execute_rename" -> _execute_rename(x[1], x[2])
      [] op = "_execute_create" -> _execute_create(x[1], x[2])
      [] op = "_git_context" -> _git_context(x[1], x[2])
      [] op = "_git_stage_entry" -> _git_stage_entry(x[1], x[2])
      [] op = "_git_unstage_entry" -> _git_unstage_entry(x[1], x[2])
      [] op = "do_restore" -> do_restore(x[1], x[2], x[3])
      [] op = "_git_restore_entry" -> _git_restore_entry(x[1])
      [] op = "Paged" -> Paged(x[1], x[2], x[3], x[4])
      [] op = "_git_diff_entry" -> _git_diff_entry(x[1], x[2])
      [] op = "_git_commit" -> _git_commit(x[1], x[2])
      [] op = "_git_log_entry" -> _git_log_entry(x[1], x[2])
      [] op = "_git_blame_entry" -> _git_blame_entry(x[1], x[2])
      [] op = "_refresh_active_pane" -> _refresh_active_pane(x[1])
      [] op = "_expand_tree_cursor" -> _expand_tree_cursor(x[1])
      [] op = "_collapse_tree_cursor" -> _collapse_tree_cursor(x[1])
      [] op = "_handle_mode_command" -> _handle_mode_command(x[1], x[2], x[3])
      [] op = "_handle_mode_selection_key" -> _handle_mode_selection_key(x[1], x[2])
      [] op = "_execute_ssh_connect" -> _execute_ssh_connect(x[1], x[2], x[3])
      [] op = "_disconnect_ssh" -> _disconnect_ssh(x[1], x[2])
      [] op = "_handle_host_field_exit" -> _handle_host_field_exit(x[1])
      [] op = "_connect_with_available_credentials" -> _connect_with_available_credentials(x[1], x[2])
      [] op = "_approve_host_key_and_connect" -> _approve_host_key_and_connect(x[1], x[2])
      [] op = "Call" -> Call(x[1], x[2], x[3])
      [] op = "_handle_confirmation_key" -> _handle_confirmation_key(x[1], x[2], x[3])
      [] op = "Submit" -> Submit(x[1], x[2], x[3])
      [] op = "_handle_text_input_mode" -> _handle_text_input_mode(x[1], x[2], x[3], x[4])
      [] op = "_handle_command_key" -> _handle_command_key(x[1], x[2], x[3])
      [] op = "_handle_rename_key" -> _handle_rename_key(x[1], x[2], x[3])
      [] op = "_handle_create_key" -> _handle_create_key(x[1], x[2], x[3])
      [] op = "_handle_ssh_connect_key" -> _handle_ssh_connect_key(x[1], x[2], x[3])
      [] op = "_handle_navigation_key" -> _handle_navigation_key(x[1], x[2], x[3])

----------------------------------------------------------------------------
(* DualPaneBrowser._loop *)

\* the local filesystem the browser is started on
InitialFs ==
    (<<>> :> DirNode) @@ (<<"d">> :> DirNode) @@ (<<"d", "a">> :> FileNode(0))
    @@ (<<"a">> :> FileNode(0)) @@ (<<"failed">> :> FileNode(0))

\* the remote host's filesystem
InitialRemote ==
    (<<>> :> DirNode) @@ (<<"a">> :> FileNode(1)) @@ (<<"b">> :> FileNode(1))
    @@ (<<"r">> :> DirNode) @@ (<<"r", "c">> :> FileNode(1))

\* the repository: the whole local filesystem, with a and d/a committed
InitialGit ==
    [root |-> Some(Root),
     head |-> (<<"a">> :> 0) @@ (<<"d", "a">> :> 0),
     index |-> (<<"a">> :> 0) @@ (<<"d", "a">> :> 0)]

\* the directories the right pane may be started on, the left one being on /
InitialDirs == {Root, <<"d">>}

\* DualPaneBrowser.auto_reconnect_ssh: a saved session (hostname, username,
\* remote_directory) is connected again before the loop starts; a connection that
\* fails leaves the pane local
auto_reconnect_ssh(b, left_ssh, right_ssh, io) ==
    LET again(pane, ssh, tag) ==
            IF IsNone(ssh) \/ tag \in io THEN pane
            ELSE [pane EXCEPT !.ssh_connection =
                                  Some(Connection(Get(ssh).hostname, Get(ssh).username)),
                              !.current_dir = Get(ssh).remote_directory,
                              !.cursor_index = 0,
                              !.scroll_offset = 0]
    IN [b EXCEPT !.left = again(@, left_ssh, "connect_left"),
                 !.right = again(@, right_ssh, "connect_right")]

Init ==
    /\ \E right_root \in InitialDirs : browser = NewBrowser(Root, right_root)
    /\ fs = InitialFs
    /\ remote = InitialRemote
    /\ git = InitialGit
    /\ config = [credentials |-> <<>>, agent |-> FALSE]
    /\ loop = "start"
    /\ key = ""
    /\ calls = <<>>

\* the world the handlers of this iteration run in
Here == World(browser, fs, remote, git, config)

\* the world a handler left becomes the state; an exception that reached _loop
\* ends it
Leave(w, k) ==
    /\ ~w.oob
    /\ FitsBounds(w.fs)
    /\ FitsBounds(w.remote)
    /\ browser' = w.b
    /\ fs' = w.fs
    /\ remote' = w.remote
    /\ git' = w.git
    /\ config' = w.config
    /\ key' = k
    /\ calls' = IF IsSome(w.exc) THEN Append(w.calls, "raise " \o Get(w.exc).type)
                ELSE w.calls
    /\ loop' = IF IsSome(w.exc) THEN "crashed" ELSE "render"

\* _loop, lines 166-167: both panes are listed before the first render
Start ==
    /\ loop = "start"
    /\ Leave(Run("_refresh_panes", <<Here>>), key)

\* render_browser: both panes scroll to keep their cursor in the viewport
Render ==
    /\ loop = "render"
    /\ browser' = [browser EXCEPT
                      !.left = ensure_cursor_visible(@, ViewportRows),
                      !.right = ensure_cursor_visible(@, ViewportRows)]
    /\ loop' = "getch"
    /\ UNCHANGED <<fs, remote, git, config, key, calls>>

\* in_modal_input looking at the text entries only
in_modal_input_text(b) ==
    \/ b.in_command_mode
    \/ b.in_ssh_connect_mode
    \/ b.in_rename_mode
    \/ b.in_create_mode

\* _loop, lines 175-182
in_modal_input(b) ==
    \/ b.in_command_mode
    \/ IsSome(b.pending_action)
    \/ b.in_ssh_connect_mode
    \/ b.in_rename_mode
    \/ b.in_create_mode
    \/ b.in_mode_prompt

\* _loop, lines 188-201: the handler the key goes to
Handler(b) ==
    CASE IsSome(b.pending_action) -> "_handle_confirmation_key"
      [] b.in_ssh_connect_mode -> "_handle_ssh_connect_key"
      [] b.in_rename_mode -> "_handle_rename_key"
      [] b.in_create_mode -> "_handle_create_key"
      [] b.in_mode_prompt -> "_handle_mode_selection_key"
      [] b.in_command_mode -> "_handle_command_key"
      [] OTHER -> "_handle_navigation_key"

\* _loop, lines 202-203
Dispatched(r, k) ==
    Leave(IF IsNone(r.w.exc) /\ ~r.handled /\ k \notin {"q", "Q"}
          THEN Status(r.w, "Unhandled keypress.") ELSE r.w, k)

\* the failures to try with key k: a key that is neither a character nor Enter
\* makes no external call besides listing
Fails(k, IO) == IF IsPrintable(k) \/ IsEnter(k) THEN IO ELSE {{}}

\* _loop, lines 185-186
Quit(K) ==
    /\ loop = "getch"
    /\ ~in_modal_input(browser)
    /\ \E k \in K \cap {"q", "Q"} :
           /\ key' = k
           /\ loop' = "exited"
           /\ calls' = <<>>
           /\ UNCHANGED <<browser, fs, remote, git, config>>

ConfirmationKey(K, IO) ==
    /\ loop = "getch"
    /\ Handler(browser) = "_handle_confirmation_key"
    /\ \E k \in K : \E io \in Fails(k, IO) : Dispatched(Run("_handle_confirmation_key", <<Here, k, io>>), k)

SshConnectKey(K, IO) ==
    /\ loop = "getch"
    /\ Handler(browser) = "_handle_ssh_connect_key"
    /\ \E k \in K : \E io \in Fails(k, IO) : Dispatched(Run("_handle_ssh_connect_key", <<Here, k, io>>), k)

RenameKey(K, IO) ==
    /\ loop = "getch"
    /\ Handler(browser) = "_handle_rename_key"
    /\ \E k \in K : \E io \in Fails(k, IO) : Dispatched(Run("_handle_rename_key", <<Here, k, io>>), k)

CreateKey(K, IO) ==
    /\ loop = "getch"
    /\ Handler(browser) = "_handle_create_key"
    /\ \E k \in K : \E io \in Fails(k, IO) : Dispatched(Run("_handle_create_key", <<Here, k, io>>), k)

ModeSelectionKey(K) ==
    /\ loop = "getch"
    /\ Handler(browser) = "_handle_mode_selection_key"
    /\ \E k \in K : Dispatched(Run("_handle_mode_selection_key", <<Here, k>>), k)

CommandKey(K, IO) ==
    /\ loop = "getch"
    /\ Handler(browser) = "_handle_command_key"
    /\ \E k \in K : \E io \in Fails(k, IO) : Dispatched(Run("_handle_command_key", <<Here, k, io>>), k)

NavigationKey(K, IO) ==
    /\ loop = "getch"
    /\ Handler(browser) = "_handle_navigation_key"
    /\ \E k \in K \ {"q", "Q"} : \E io \in Fails(k, IO) :
           Dispatched(Run("_handle_navigation_key", <<Here, k, io>>), k)

----------------------------------------------------------------------------
(* The browser at work on files: the left pane walks the directories and moves,
   deletes and restores what it selects, with the confirmations these ask for *)

FileKeys == {"KEY_DOWN", "ENTER", "KEY_BACKSPACE", "d", "t", "r", "y"}
ConfirmKeys == {"y", "Y", "n", "N", "ESC", "q"}
FileIOs == {{}, {"copy"}, {"delete"}}

Next ==
    \/ Start
    \/ Render
    \/ NavigationKey(FileKeys, FileIOs)
    \/ ConfirmationKey(ConfirmKeys, FileIOs)

Spec == Init /\ [][Next]_vars

----------------------------------------------------------------------------
(* The browser at work on its view: cursor, scrolling, the modes and the tree, in
   a left pane that is local or shows the remote host of a saved session *)

SavedSession == [hostname |-> "h", username |-> USER, remote_directory |-> Root]

InitView ==
    /\ \E left_ssh \in {None, Some(SavedSession)} :
           browser = auto_reconnect_ssh(NewBrowser(Root, Root), left_ssh, None, {})
    /\ fs = InitialFs
    /\ remote = InitialRemote
    /\ git = InitialGit
    /\ config = [credentials |-> <<>>, agent |-> FALSE]
    /\ loop = "start"
    /\ key = ""
    /\ calls = <<>>

ViewKeys == {"KEY_DOWN", "KEY_UP", "KEY_NPAGE", "KEY_PPAGE", "ENTER", "KEY_BACKSPACE",
             "m", "+", "-", "d", "s"}
ViewModeKeys == {"t", "f", "ESC"}
ViewConfirmKeys == {"y", "n"}

NextView ==
    \/ Start
    \/ Render
    \/ NavigationKey(ViewKeys, {{}})
    \/ ModeSelectionKey(ViewModeKeys)
    \/ ConfirmationKey(ViewConfirmKeys, {{}})

SpecView == InitView /\ [][NextView]_vars

----------------------------------------------------------------------------
(* The browser at work on its input states: every modal state entered, typed
   into and left *)

ModalNavKeys == {"h", "n", "f", "m", ":", "S", "q", "Q"}
ModalTextKeys == {"q", "ENTER", "ESC", "KEY_BACKSPACE", "KEY_RESIZE"}
ModalSshKeys == {"q", "ENTER", "ESC"}
ModalModeKeys == {"t", "f", "q", "ESC"}
ModalConfirmKeys == {"y", "n", "q"}
ModalIOs == {{}, {"unknown_host"}}

NextModal ==
    \/ Start
    \/ Render
    \/ Quit(ModalNavKeys)
    \/ NavigationKey(ModalNavKeys, {{}})
    \/ ConfirmationKey(ModalConfirmKeys, ModalIOs)
    \/ SshConnectKey(ModalSshKeys, ModalIOs)
    \/ RenameKey(ModalTextKeys, {{}})
    \/ CreateKey(ModalTextKeys, {{}})
    \/ ModeSelectionKey(ModalModeKeys)
    \/ CommandKey(ModalTextKeys, {{}})

InitModal ==
    /\ browser = NewBrowser(Root, Root)
    /\ fs = InitialFs
    /\ remote = InitialRemote
    /\ git = InitialGit
    /\ config = [credentials |-> <<>>, agent |-> FALSE]
    /\ loop = "start"
    /\ key = ""
    /\ calls = <<>>

SpecModal == InitModal /\ [][NextModal]_vars

----------------------------------------------------------------------------
(* The browser on a filesystem that holds what a listing or a name check can
   stumble on: a directory that may not be listed and a symlink whose target is
   missing.  Entries are entered, renamed and created *)

\* /a is a file, /d a directory, /k a directory without read permission and /q a
\* symlink to /x, which does not exist
FaultsFs ==
    (<<>> :> DirNode) @@ (<<"a">> :> FileNode(0)) @@ (<<"d">> :> DirNode)
    @@ (<<"k">> :> LockedDirNode) @@ (<<"q">> :> LinkNode(<<"x">>))

FaultsNavKeys == {"KEY_DOWN", "ENTER", "n", "f", "F"}
FaultsTextKeys == {"q", "ENTER", "KEY_BACKSPACE"}

NextFaults ==
    \/ Start
    \/ Render
    \/ NavigationKey(FaultsNavKeys, {{}})
    \/ RenameKey(FaultsTextKeys, {{}})
    \/ CreateKey(FaultsTextKeys, {{}})

InitFaults ==
    /\ browser = NewBrowser(Root, Root)
    /\ fs = FaultsFs
    /\ remote = InitialRemote
    /\ git = InitialGit
    /\ config = [credentials |-> <<>>, agent |-> FALSE]
    /\ loop = "start"
    /\ key = ""
    /\ calls = <<>>

SpecFaults == InitFaults /\ [][NextFaults]_vars

----------------------------------------------------------------------------
(* The browser at work on the repository: every git action on every entry of a
   left pane that is local or remote, in File and in Git mode, where the
   repository is all of /, is /d alone, is all of / with the rename of a to q
   staged, or is not there *)

GitRepositories ==
    {InitialGit,
     [root |-> Some(<<"d">>), head |-> (<<"d", "a">> :> 0), index |-> (<<"d", "a">> :> 0)],
     [root |-> Some(Root), head |-> (<<"a">> :> 0) @@ (<<"d", "a">> :> 0),
      index |-> (<<"q">> :> 0) @@ (<<"d", "a">> :> 0)],
     [root |-> None, head |-> <<>>, index |-> <<>>]}

\* the working trees: as committed, with the tracked file a modified, and with a
\* renamed to q
GitWorktrees ==
    {InitialFs, With(InitialFs, <<"a">>, FileNode(1)),
     With(Without(InitialFs, {<<"a">>}), <<"q">>, FileNode(0))}

GitKeys == {"KEY_DOWN", "a", "u", "r", "g", "l", "b", "m"}
GitConfirmKeys == {"y", "n"}
GitModeKeys == {"g"}
GitIOs == {{}, {"git"}}

NextGit ==
    \/ Start
    \/ Render
    \/ NavigationKey(GitKeys, GitIOs)
    \/ ConfirmationKey(GitConfirmKeys, GitIOs)
    \/ ModeSelectionKey(GitModeKeys)

InitGit ==
    /\ \E left_ssh \in {None, Some(SavedSession)} :
           browser = auto_reconnect_ssh(NewBrowser(Root, Root), left_ssh, None, {})
    /\ fs \in GitWorktrees
    /\ remote = InitialRemote
    /\ git \in GitRepositories
    /\ config = [credentials |-> <<>>, agent |-> FALSE]
    /\ loop = "start"
    /\ key = ""
    /\ calls = <<>>

SpecGit == InitGit /\ [][NextGit]_vars

----------------------------------------------------------------------------
(* The browser at work on the tree projection, over directory graphs with and
   without symlinks: a link back to the root of the pane, a link from a directory
   to itself, two directories that link to each other, a link that names itself,
   a link to a sibling directory, and nested directories without links; the left
   pane is local or shows the remote host of a saved session *)

TreeFilesystems ==
    {(<<>> :> DirNode) @@ (<<"d">> :> DirNode) @@ (<<"d", "l">> :> LinkNode(<<>>))
        @@ (<<"a">> :> FileNode(0)),
     (<<>> :> DirNode) @@ (<<"d">> :> DirNode) @@ (<<"d", "l">> :> LinkNode(<<"d">>))
        @@ (<<"d", "a">> :> FileNode(0)),
     (<<>> :> DirNode) @@ (<<"d">> :> DirNode) @@ (<<"e">> :> DirNode)
        @@ (<<"d", "l">> :> LinkNode(<<"e">>)) @@ (<<"e", "m">> :> LinkNode(<<"d">>)),
     (<<>> :> DirNode) @@ (<<"l">> :> LinkNode(<<"l">>)) @@ (<<"d">> :> DirNode)
        @@ (<<"d", "a">> :> FileNode(0)),
     (<<>> :> DirNode) @@ (<<"d">> :> DirNode) @@ (<<"d", "a">> :> FileNode(0))
        @@ (<<"l">> :> LinkNode(<<"d">>)),
     (<<>> :> DirNode) @@ (<<"d">> :> DirNode) @@ (<<"d", "e">> :> DirNode)
        @@ (<<"d", "a">> :> FileNode(0)) @@ (<<"k">> :> LockedDirNode)}

TreeKeys == {"KEY_DOWN", "KEY_UP", "+", "-", "ENTER", "m"}
TreeModeKeys == {"t", "f", "ESC"}

NextTree ==
    \/ Start
    \/ Render
    \/ NavigationKey(TreeKeys, {{}})
    \/ ModeSelectionKey(TreeModeKeys)

InitTree ==
    /\ \E left_ssh \in {None, Some(SavedSession)} :
           browser = auto_reconnect_ssh(NewBrowser(Root, Root), left_ssh, None, {})
    /\ fs \in TreeFilesystems
    /\ remote = InitialRemote
    /\ git = [root |-> None, head |-> <<>>, index |-> <<>>]
    /\ config = [credentials |-> <<>>, agent |-> FALSE]
    /\ loop = "start"
    /\ key = ""
    /\ calls = <<>>

SpecTree == InitTree /\ [][NextTree]_vars

----------------------------------------------------------------------------
(* The browser at work on a tree and a remote session: the left pane shows the
   tree of a directory with a directory and a file one level down, directories
   are entered and collapsed, and the pane is connected to the remote host (the
   offer to save the credentials is declined) and disconnected again *)

SessionFs ==
    (<<>> :> DirNode) @@ (<<"d">> :> DirNode) @@ (<<"d", "e">> :> DirNode)
    @@ (<<"d", "a">> :> FileNode(0))

SessionKeys == {"KEY_DOWN", "-", "ENTER", "KEY_BACKSPACE", "m", "S", "x"}
SessionModeKeys == {"t"}
SessionSshKeys == {"h", "ENTER"}
SessionConfirmKeys == {"n"}

NextSession ==
    \/ Start
    \/ Render
    \/ NavigationKey(SessionKeys, {{}})
    \/ ModeSelectionKey(SessionModeKeys)
    \/ SshConnectKey(SessionSshKeys, {{}})
    \/ ConfirmationKey(SessionConfirmKeys, {{}})

InitSession ==
    /\ browser = NewBrowser(Root, Root)
    /\ fs = SessionFs
    /\ remote = InitialRemote
    /\ git = [root |-> None, head |-> <<>>, index |-> <<>>]
    /\ config = [credentials |-> <<>>, agent |-> FALSE]
    /\ loop = "start"
    /\ key = ""
    /\ calls = <<>>

SpecSession == InitSession /\ [][NextSession]_vars

----------------------------------------------------------------------------
(* The browser at work on going up: the left pane starts two levels down, below
   a directory that may be listed or below one that may not, on the local
   filesystem or on the remote host of a saved session, which holds the same
   directories; either pane goes up, and deletes what it selects, in File and in
   Tree mode *)

ParentFs ==
    (<<>> :> DirNode) @@ (<<"d">> :> DirNode) @@ (<<"d", "e">> :> DirNode)
    @@ (<<"k">> :> LockedDirNode) @@ (<<"k", "e">> :> DirNode)

ParentDirs == {<<"d", "e">>, <<"k", "e">>}

ParentKeys == {"KEY_BACKSPACE", "KEY_DOWN", "TAB", "d", "m"}
ParentConfirmKeys == {"y"}
ParentModeKeys == {"t", "f"}

NextParent ==
    \/ Start
    \/ Render
    \/ NavigationKey(ParentKeys, {{}})
    \/ ConfirmationKey(ParentConfirmKeys, {{}})
    \/ ModeSelectionKey(ParentModeKeys)

InitParent ==
    /\ \E dir \in ParentDirs :
           \/ browser = NewBrowser(dir, Root)
           \/ browser = auto_reconnect_ssh(NewBrowser(Root, Root),
                                           Some([SavedSession EXCEPT !.remote_directory = dir]),
                                           None, {})
    /\ fs = ParentFs
    /\ remote = ParentFs
    /\ git = [root |-> None, head |-> <<>>, index |-> <<>>]
    /\ config = [credentials |-> <<>>, agent |-> FALSE]
    /\ loop = "start"
    /\ key = ""
    /\ calls = <<>>

SpecParent == InitParent /\ [][NextParent]_vars

----------------------------------------------------------------------------
(* The browser at work on the SSH connect prompt: the three fields are typed
   into, left with Tab and Enter and cancelled, with no credentials known, with
   credentials saved for the host h and with an SSH agent; the host is known
   and answers; every confirmation is answered with yes and with no *)

SshConfigs ==
    {[credentials |-> <<>>, agent |-> FALSE],
     [credentials |-> ("h" :> [username |-> "v", password |-> Some("p")]), agent |-> FALSE],
     [credentials |-> <<>>, agent |-> TRUE]}

SshNavKeys == {"S"}
SshFieldKeys == {"h", "ENTER", "TAB", "KEY_BACKSPACE", "ESC"}
SshConfirmKeys == {"y", "n", "N", "ESC"}

NextSsh ==
    \/ Start
    \/ Render
    \/ NavigationKey(SshNavKeys, {{}})
    \/ SshConnectKey(SshFieldKeys, {{}})
    \/ ConfirmationKey(SshConfirmKeys, {{}})

InitSsh ==
    /\ browser = NewBrowser(Root, Root)
    /\ fs = InitialFs
    /\ remote = InitialRemote
    /\ git = [root |-> None, head |-> <<>>, index |-> <<>>]
    /\ config \in SshConfigs
    /\ loop = "start"
    /\ key = ""
    /\ calls = <<>>

SpecSsh == InitSsh /\ [][NextSsh]_vars

----------------------------------------------------------------------------
(* The browser at work on a remote host: the left pane shows the remote
   directory of a saved session, whose paths also exist on the local disk.
   Directories are entered and deleted, the pane is refreshed, and the session
   is disconnected, which either close call may refuse. *)

\* local files under the paths the host has too
RemoteLocalFs ==
    (<<>> :> DirNode) @@ (<<"d">> :> DirNode) @@ (<<"d", "a">> :> FileNode(2))
        @@ (<<"a">> :> FileNode(2))

\* the host: a directory with a file and an empty directory in it, and the same
\* with a directory in it that the user may not list
RemoteTrees ==
    {(<<>> :> DirNode) @@ (<<"d">> :> DirNode) @@ (<<"d", "a">> :> FileNode(1))
         @@ (<<"d", "e">> :> DirNode) @@ (<<"a">> :> FileNode(1)),
     (<<>> :> DirNode) @@ (<<"d">> :> DirNode) @@ (<<"d", "a">> :> FileNode(1))
         @@ (<<"d", "e">> :> DirNode) @@ (<<"d", "k">> :> LockedDirNode)}

RemoteKeys == {"KEY_DOWN", "ENTER", "KEY_BACKSPACE", "d", "s", "x"}
RemoteConfirmKeys == {"y", "n"}
RemoteIOs == {{}, {"sftp.close"}, {"client.close"}}

NextRemote ==
    \/ Start
    \/ Render
    \/ NavigationKey(RemoteKeys, RemoteIOs)
    \/ ConfirmationKey(RemoteConfirmKeys, {{}})

InitRemote ==
    /\ browser = auto_reconnect_ssh(NewBrowser(Root, Root), Some(SavedSession), None, {})
    /\ fs = RemoteLocalFs
    /\ remote \in RemoteTrees
    /\ git = [root |-> None, head |-> <<>>, index |-> <<>>]
    /\ config = [credentials |-> <<>>, agent |-> FALSE]
    /\ loop = "start"
    /\ key = ""
    /\ calls = <<>>

SpecRemote == InitRemote /\ [][NextRemote]_vars

----------------------------------------------------------------------------
(* The browser at work on listings: the left pane, local or on the remote host,
   stands on / or on /d, where /d holds any choice of three names, each of them
   a file, a directory, a link to a directory, a link to nothing, or not there;
   every mode is switched to, with and without a repository *)

ListingNames == {"a", "B", "c"}
ListingKinds == {"none", "file", "dir", "link", "dangling"}

\* the node of a kind
ListingNode(kind) ==
    CASE kind = "file" -> FileNode(1)
      [] kind = "dir" -> DirNode
      [] kind = "link" -> LinkNode(<<"d">>)
      [] OTHER -> LinkNode(<<"x">>)

\* the filesystem with /d holding the names as k says
ListingFs(k) ==
    (<<>> :> DirNode) @@ (<<"d">> :> DirNode)
    @@ [p \in {<<"d", n>> : n \in {m \in ListingNames : k[m] # "none"}} |->
           ListingNode(k[p[2]])]

ListingFilesystems == {ListingFs(k) : k \in [ListingNames -> ListingKinds]}

\* the repository is all of / with d/a committed, or is not there
ListingRepositories ==
    {[root |-> Some(Root), head |-> (<<"d", "a">> :> 0), index |-> (<<"d", "a">> :> 0)],
     [root |-> None, head |-> <<>>, index |-> <<>>]}

ListingDirs == {Root, <<"d">>}
ListingKeys == {"m", "s"}
ListingModeKeys == {"f", "t", "g", "o"}

NextListing ==
    \/ Start
    \/ Render
    \/ NavigationKey(ListingKeys, {{}})
    \/ ModeSelectionKey(ListingModeKeys)

InitListing ==
    /\ \E dir \in ListingDirs :
           \/ browser = NewBrowser(dir, Root)
           \/ browser = auto_reconnect_ssh(
                            NewBrowser(Root, Root),
                            Some([SavedSession EXCEPT !.remote_directory = dir]), None, {})
    /\ fs \in ListingFilesystems
    /\ remote = fs
    /\ git \in ListingRepositories
    /\ config = [credentials |-> <<>>, agent |-> FALSE]
    /\ loop = "start"
    /\ key = ""
    /\ calls = <<>>

SpecListing == InitListing /\ [][NextListing]_vars

----------------------------------------------------------------------------
(* The browser at work on the commands of its modes: every file and git command,
   with the help overlay up and down and with the mode prompt, on the files and
   the repository the file operations start on *)

\* the keys _handle_mode_command takes, in lower case
ModeCommandLetters == {"d", "c", "t", "v", "e", "a", "u", "r", "g", "o", "l", "b"}

CommandKeys == ModeCommandLetters \cup {"KEY_DOWN", "h", "m", "D", "A"}
CommandConfirmKeys == {"y", "n"}
CommandModeKeys == {"ESC", "d"}

NextCommands ==
    \/ Start
    \/ Render
    \/ NavigationKey(CommandKeys, {{}})
    \/ ConfirmationKey(CommandConfirmKeys, {{}})
    \/ ModeSelectionKey(CommandModeKeys)

SpecCommands == Init /\ [][NextCommands]_vars

----------------------------------------------------------------------------
(* What the steps of the loop are, for the properties below *)

\* a key was read and went to a handler, or ended the loop
KeyStep == loop = "getch" /\ loop' # "getch"

\* the entry under the cursor of the active pane
Selected == selected_entry(_active_pane(browser))

\* a step of the navigation handler on a selected entry that is not ".."
OnEntry(k) ==
    /\ KeyStep
    /\ key' = k
    /\ Handler(browser) = "_handle_navigation_key"
    /\ IsSome(Selected)
    /\ ~Get(Selected).is_parent

\* where a copy or move puts the selected entry
DestPath == Join(_inactive_pane(browser).current_dir, _get_entry_name(Get(Selected)))

\* the step made a call that raised
CallRaised == \E i \in 1..Len(calls') : Contains(calls'[i], "raise")

\* the paths an entry list shows
Shown(pane) == {pane.entries[i].path : i \in 1..Len(pane.entries)}

----------------------------------------------------------------------------
(* C1: a move (key t) onto a name that already exists in the inactive pane's
   directory is refused: the filesystem is as it was, so the source still exists
   and the destination is unchanged; also when both panes show one directory *)
C1_MoveOntoExistingRefused ==
    [][(OnEntry("t") /\ Exists(fs, DestPath)) => fs' = fs]_vars

----------------------------------------------------------------------------
\* the confirmation that is pending, and whether it is one of delete or restore
Pending == Get(browser.pending_action).confirm_action
Destructive == IsSome(browser.pending_action) /\ Pending.op \in {"do_delete", "do_restore"}

(* C2: the keys of delete (d) and of git restore (r) change nothing on disk or in
   the repository and make no call: on an entry they leave a confirmation pending
   for it.  Apart from a move, the files change only at a y or Y read while such a
   confirmation is pending, and a pending confirmation is never replaced *)
C2_DestructiveOnlyAfterYes ==
    [][/\ (KeyStep /\ Handler(browser) = "_handle_navigation_key" /\ key' \in {"d", "r"})
              => (fs' = fs /\ remote' = remote /\ git' = git /\ calls' = <<>>)
       /\ OnEntry("d")
              => /\ IsSome(browser'.pending_action)
                 /\ Get(browser'.pending_action).confirm_action.op = "do_delete"
                 /\ Get(browser'.pending_action).confirm_action.entry = Selected
       /\ OnEntry("r")
              => /\ IsSome(browser'.pending_action)
                 /\ Get(browser'.pending_action).confirm_action.op = "do_restore"
                 /\ Get(browser'.pending_action).confirm_action.rel = Get(Selected).path
       /\ (fs' # fs /\ key' # "t")
              => (KeyStep /\ key' \in {"y", "Y"} /\ Destructive)
       /\ (IsSome(browser.pending_action) /\ IsSome(browser'.pending_action))
              => browser'.pending_action = browser.pending_action]_vars

C2_Deleted ==
    /\ key \in {"y", "Y"}
    /\ loop = "render"
    /\ browser.status_message = Some("Deleted a.")
    /\ calls = <<"delete /a">>
    /\ ~Exists(fs, <<"a">>)

(* C3: with a delete confirmation pending, each of n, N and ESC clears it and sets
   the cancel message, and that is all: no call is made, the panes are not
   refreshed and the file is still there.  A y read with nothing pending commits
   nothing *)
C3_DeclineKeepsFile ==
    [][/\ (KeyStep /\ key' \in {"n", "N", "ESC"} /\ Destructive /\ Pending.op = "do_delete")
              => /\ browser' = [browser EXCEPT !.pending_action = None,
                                                !.status_message = Some("Cancelled.")]
                 /\ fs' = fs /\ remote' = remote /\ git' = git
                 /\ calls' = <<>>
                 /\ Exists(fs', Get(Pending.entry).path)
       /\ (KeyStep /\ key' = "y" /\ IsNone(browser.pending_action))
              => /\ IsNone(browser'.pending_action)
                 /\ fs' = fs /\ remote' = remote /\ git' = git
                 /\ calls' = <<>>]_vars

C3_Declined ==
    /\ key \in {"n", "N", "ESC"}
    /\ loop = "render"
    /\ browser.status_message = Some("Cancelled.")
    /\ IsNone(browser.pending_action)
    /\ fs = InitialFs

(* C4: a move (key t) of an entry that is not "..", to a directory that has no
   entry of its name and does not lie inside the entry, with no call failing, ends
   with the entry in the inactive pane's directory and in its entries, and gone
   from the active pane's directory and entries: whatever the entry is called *)
C4_MoveArrives ==
    [][(/\ OnEntry("t")
        /\ ~Exists(fs, DestPath)
        /\ ~IsPrefix(Get(Selected).path, DestPath)
        /\ ~CallRaised
        /\ loop' = "render")
          => /\ Exists(fs', DestPath)
             /\ ~Exists(fs', Get(Selected).path)
             /\ DestPath \in Shown(_inactive_pane(browser'))
             /\ Get(Selected).path \notin Shown(_active_pane(browser'))]_vars

(* C5: when the copy of a move (key t) raises an I/O error, nothing is removed:
   the files are as they were, the source among them, and the status message
   says that the copy failed *)
C5_FailedCopyKeepsSource ==
    [][(OnEntry("t") /\ \E i \in 1..Len(calls') : calls'[i] = "copy: raised")
          => /\ fs' = fs
             /\ Exists(fs', Get(Selected).path)
             /\ IsSome(browser'.status_message)
             /\ Contains(Lower(Get(browser'.status_message)), "failed")]_vars

C5_CopyFailed ==
    /\ key = "t"
    /\ loop = "render"
    /\ calls = <<"copy: raised">>
    /\ browser.status_message = Some("Copy failed: I/O error")
    /\ Exists(fs, <<"failed">>)

----------------------------------------------------------------------------
ModalFlags == {"in_command_mode", "in_rename_mode", "in_create_mode",
               "in_mode_prompt", "in_ssh_connect_mode", "show_help"}

(* C6: at most one of the flags in_command_mode, in_rename_mode, in_create_mode,
   in_mode_prompt, in_ssh_connect_mode and show_help is true, in every state the
   loop reaches *)
C6_AtMostOneFlag == Cardinality({f \in ModalFlags : browser[f]}) <= 1

C6_PromptOverHelp ==
    /\ key = "m"
    /\ loop = "getch"
    /\ browser.in_mode_prompt
    /\ ~browser.show_help
    /\ browser.status_message = Some("Select a mode.")

\* the input states that are active: the text entries and the prompt by their
\* flags, the confirmation by the pending action
InputStates ==
    {f \in ModalFlags \ {"show_help"} : browser[f]}
    \cup (IF IsSome(browser.pending_action) THEN {"pending_action"} ELSE {})

(* C7: no two of a pending confirmation, command entry, rename entry, create
   entry, the mode prompt and SSH-connect entry are active in one state *)
C7_InputStatesExclusive == Cardinality(InputStates) <= 1

\* what the handler of the active input state makes of key k
Routed(k) ==
    IF Handler(browser) = "_handle_mode_selection_key"
    THEN Run(Handler(browser), <<Here, k>>)
    ELSE Run(Handler(browser), <<Here, k, {}>>)

(* C8: q or Q ends the loop exactly when no confirmation is pending and none of
   command, rename, create, mode-select and SSH-connect entry is active; in every
   other state the loop goes on and the browser is what the handler of the active
   input state made of the key *)
C8_QuitOnlyInNavigation ==
    [][(KeyStep /\ key' \in {"q", "Q"})
          => IF InputStates = {}
             THEN loop' = "exited" /\ browser' = browser
             ELSE loop' = "render" /\ browser' = Routed(key').w.b]_vars

C8_TypedIntoCommand ==
    /\ key = "q"
    /\ loop = "render"
    /\ browser.in_command_mode
    /\ browser.command_buffer = "q"

----------------------------------------------------------------------------
Panes == {browser.left, browser.right}

(* C9: in each pane the cursor is on an entry, 0 <= cursor_index < len(entries),
   and is 0 when there are no entries: whatever refreshes, cursor moves, entering
   and leaving of directories and collapsing and expanding of the tree went
   before *)
C9_CursorInRange ==
    \A pane \in Panes :
        IF Len(pane.entries) = 0 THEN pane.cursor_index = 0
        ELSE 0 <= pane.cursor_index /\ pane.cursor_index < Len(pane.entries)

C9_ShrunkUnderCursor ==
    /\ key = "y"
    /\ loop = "render"
    /\ browser.status_message = Some("Deleted failed.")
    /\ browser.left.cursor_index = Len(browser.left.entries) - 1
    /\ Len(browser.left.entries) = 2

\* the panes the last step refreshed, where the step is known to have done so:
\* a confirmed delete refreshes both, the refresh key the active one
Refreshed ==
    IF loop = "render" /\ key = "y" THEN Panes
    ELSE IF loop = "render" /\ key = "s" THEN {_active_pane(browser)}
    ELSE {}

(* C10: after a refresh, 0 <= scroll_offset <= max(len(entries) - viewport, 0) for
   the viewport the panes are drawn with *)
C10_ScrollInRangeAfterRefresh ==
    \A pane \in Refreshed :
        /\ 0 <= pane.scroll_offset
        /\ pane.scroll_offset <= Max(Len(pane.entries) - ViewportRows, 0)

(* C10, as the code has it: in every state 0 <= scroll_offset <= max(len(entries)
   - 1, 0), which is what a refresh clamps to; the bound max(len(entries) -
   viewport, 0) holds in every state that was drawn, where the loop waits for a
   key *)
C10_ScrollClampedThenDrawn ==
    \A pane \in Panes :
        /\ 0 <= pane.scroll_offset
        /\ pane.scroll_offset <= Max(Len(pane.entries) - 1, 0)
        /\ loop = "getch"
               => pane.scroll_offset <= Max(Len(pane.entries) - ViewportRows, 0)

C10_ShrunkUnderWindow ==
    /\ key = "y"
    /\ loop = "render"
    /\ Len(browser.left.entries) = ViewportRows
    /\ browser.left.scroll_offset = 1
    /\ browser.left.cursor_index = Len(browser.left.entries) - 1

----------------------------------------------------------------------------
\* Enter was read while the handler h had the keys
Submitting(h) == KeyStep /\ IsEnter(key') /\ Handler(browser) = h

\* the path a rename and a create ask for
RenameTarget == Join(Parent(Get(Selected).path), Strip(browser.rename_buffer))
CreateTarget == Join(_active_pane(browser).current_dir, Strip(browser.create_buffer))

\* the directory of p holds the name of p: a file, a directory or a symlink
NameTaken(p) == LExists(fs, p)

\* the report that a name is taken
AlreadyExists(name) == Some("'" \o name \o "' already exists.")

(* C11: a rename of the selected entry to a name its directory already holds, and
   a create of a file or directory whose name the active pane's directory already
   holds, leave the filesystem unchanged and report that the name already exists *)
C11_CollisionRefused ==
    [][/\ (/\ Submitting("_handle_rename_key")
           /\ Strip(browser.rename_buffer) # ""
           /\ IsSome(Selected)
           /\ NameTaken(RenameTarget))
          => (/\ fs' = fs
              /\ browser'.status_message = AlreadyExists(Strip(browser.rename_buffer)))
       /\ (/\ Submitting("_handle_create_key")
           /\ Strip(browser.create_buffer) # ""
           /\ NameTaken(CreateTarget))
          => (/\ fs' = fs
              /\ browser'.status_message = AlreadyExists(Strip(browser.create_buffer)))
      ]_vars

----------------------------------------------------------------------------
\* the pane on one side of a controller
PaneAt(b, side) == IF side = 0 THEN b.left ELSE b.right

\* what a refresh of the pane would do in environment e
RefreshOf(b, side, e) == refresh_entries(PaneAt(b, side), e, b.mode)

(* C12: a refresh that raises leaves the entries of its pane as they were.  A
   pane that a key step leaves on a directory that cannot be listed (the refresh
   of the step, if the step made one, raised on it) shows after the step the
   entries it showed before, all of them and in their order *)
C12_FailedRefreshKeepsEntries ==
    [][\A side \in {0, 1} :
          (KeyStep /\ IsSome(RefreshOf(browser', side, Env(fs', remote', git')).exc))
             => PaneAt(browser', side).entries = PaneAt(browser, side).entries]_vars

\* Enter on the directory that may not be listed: the pane is on it, with the
\* four entries of the directory it came from
C12_EnteredUnlistable ==
    /\ key = "ENTER"
    /\ loop = "render"
    /\ browser.left.current_dir = <<"k">>
    /\ Len(browser.left.entries) = 4
    /\ IsSome(RefreshOf(browser, 0, Env(fs, remote, git)).exc)

----------------------------------------------------------------------------
\* the directory that Enter makes the active pane's: the selected one, resolved
EnterTarget == Get(Resolve(fs, Get(Selected).path))

\* Enter was read in Navigation on a local directory whose listing raises
\* PermissionError or FileNotFoundError
EnterFails ==
    /\ Submitting("_handle_navigation_key")
    /\ IsSome(Selected)
    /\ Get(Selected).is_dir
    /\ ~is_remote(_active_pane(browser))
    /\ ~(_active_pane(browser).tree_mode_enabled /\ browser.mode = "TREE")
    /\ IsSome(Resolve(fs, Get(Selected).path))
    /\ IsSome(LocalListError(fs, EnterTarget))
    /\ Get(LocalListError(fs, EnterTarget)).type \in {"PermissionError", "FileNotFoundError"}

(* C13: when Enter in Navigation fails because the selected directory cannot be
   listed, the status message after the key is the text of the error and the
   controller is still in Navigation *)
C13_EnterFailureReported ==
    [][EnterFails =>
          /\ browser'.status_message = Some(Get(LocalListError(fs, EnterTarget)).msg)
          /\ loop' = "render"
          /\ Handler(browser') = "_handle_navigation_key"]_vars

----------------------------------------------------------------------------
\* the step read a key and the exception of a failed listing left its handler
RefreshEscaped ==
    /\ KeyStep
    /\ loop' = "crashed"
    /\ calls'[Len(calls')] \in {"raise PermissionError", "raise FileNotFoundError"}

(* C14: no key makes the exception of a failed pane refresh leave its handler:
   the PermissionError or FileNotFoundError of a listing becomes a status message
   and the loop goes on to the next render *)
C14_RefreshFailureCaught == [][~RefreshEscaped]_vars

----------------------------------------------------------------------------
\* the keys of stage, unstage, restore, diff, log and blame
GitActionKeys == {"a", "A", "u", "U", "r", "R", "g", "G", "l", "L", "b", "B"}

\* the selected entry lies in no repository: it is remote, or no repository holds
\* the directory it is in
OutsideRepository ==
    \/ Get(Selected).is_remote
    \/ IsNone(Resolve(fs, Get(Selected).path))
    \/ IsNone(RevParseToplevel(fs, git,
                               IF Get(Selected).is_dir THEN Get(Resolve(fs, Get(Selected).path))
                               ELSE Parent(Get(Resolve(fs, Get(Selected).path)))))

(* C15: each git action (stage, unstage, restore, diff, log, blame) on a selected
   entry that is not "..", local or remote, ends with a status message and raises
   nothing out of its handler; outside a repository it runs no git command and
   leaves repository and files as they were *)
C15_GitActionsReport ==
    [][\A k \in GitActionKeys :
          OnEntry(k) =>
             /\ loop' = "render"
             /\ IsSome(browser'.status_message)
             /\ OutsideRepository => (git' = git /\ fs' = fs /\ calls' = <<>>)]_vars

----------------------------------------------------------------------------
\* the panes that show the tree projection
TreePanes ==
    {pane \in Panes : pane.tree_mode_enabled /\ browser.mode = "TREE" /\ ~is_remote(pane)}

\* no path is listed twice
ListedOnce(pane) ==
    \A i, j \in 1..Len(pane.entries) :
        pane.entries[i].path = pane.entries[j].path => i = j

\* the directories whose children the projection lists: its root and the entries
\* it shows as expanded
Expanded(pane) ==
    {_normalize_tree_path(fs, pane.current_dir)}
    \cup {pane.entries[i].path : i \in {j \in 1..Len(pane.entries) :
                                            pane.entries[j].tree_is_expanded}}

\* entry i of the pane is a symlink to a directory that loops: its target is the
\* directory the link is in or one above it
LoopsBack(pane, i) ==
    /\ pane.entries[i].is_symlink
    /\ pane.entries[i].is_dir
    /\ IsPrefix(Get(Resolve(fs, pane.entries[i].path)), Parent(pane.entries[i].path))

(* C16: the tree projection of any directory graph, symlink cycles included, is
   built in finitely many steps and lists each path once: every child of the root
   and of every directory shown as expanded is listed, exactly once, and a
   symlinked directory is listed but not expanded, no entry being listed below it *)
C16_TreeListsEachOnce ==
    loop # "start" =>
        \A pane \in TreePanes :
            /\ ListedOnce(pane)
            /\ \A dir \in Expanded(pane) :
                   IsNone(ListError(fs, dir)) => IterDir(fs, dir) \subseteq Shown(pane)
            /\ \A i \in 1..Len(pane.entries) :
                   pane.entries[i].is_symlink =>
                      /\ ~pane.entries[i].tree_is_expanded
                      /\ ~pane.entries[i].tree_is_collapsed
                      /\ \A j \in 1..Len(pane.entries) :
                             pane.entries[j].tree_parent_path # Some(pane.entries[i].path)

\* the tree of a graph with a cycle is on screen
C16_CycleListed ==
    /\ loop = "getch"
    /\ \E pane \in TreePanes : \E i \in 1..Len(pane.entries) : LoopsBack(pane, i)

----------------------------------------------------------------------------
\* a refresh of a pane that shows the tree, as the files are now
TreeRefresh(pane) == refresh_entries(pane, Env(fs, remote, git), "TREE").pane

\* with the cursor on entry i: collapse, refresh, put the cursor on the directory
\* that was collapsed, expand, refresh.  The entry lists this can end with, one
\* for each entry that names the collapsed directory; the list as it is when
\* nothing was collapsed
RoundTrips(pane, i) ==
    LET c == collapse_tree_at_cursor([pane EXCEPT !.cursor_index = i - 1], fs)
        hidden == TreeRefresh(c.pane)
        dirs == c.pane.tree_collapsed_paths \ pane.tree_collapsed_paths
        on == {j \in 1..Len(hidden.entries) :
                  /\ hidden.entries[j].is_dir
                  /\ _normalize_tree_path(fs, hidden.entries[j].path) \in dirs}
    IN IF ~c.result THEN {pane.entries}
       ELSE {LET e == expand_tree_at_cursor([hidden EXCEPT !.cursor_index = j - 1], fs)
             IN IF e.result THEN TreeRefresh(e.pane).entries ELSE hidden.entries :
             j \in on}

(* C17: in tree mode, with the files unchanged: collapsing a directory,
   refreshing, expanding that directory and refreshing again gives the entries
   that were shown before the collapse, the same paths in the same order and with
   the same marks; from every list the browser comes to show and every cursor
   position in it *)
C17_CollapseExpandRoundTrip ==
    loop # "start" =>
        \A pane \in TreePanes : \A i \in 1..Len(pane.entries) :
            \A back \in RoundTrips(pane, i) : back = pane.entries

\* a directory was collapsed and expanded again with the keys - and +, while
\* another one stays collapsed
C17_ExpandedAgain ==
    /\ key = "+"
    /\ loop = "render"
    /\ browser.status_message # Some("Unhandled keypress.")
    /\ browser.mode = "TREE"
    /\ browser.left.tree_collapsed_paths = {<<"d", "e">>}
    /\ \E i \in 1..Len(browser.left.entries) : browser.left.entries[i].tree_depth = 1

\* the keys a pending confirmation answers to
ConfirmationAnswers == {"y", "Y", "n", "N", "ESC"}

\* a key comes in while a confirmation is pending and is none of its answers
OtherKeyWhilePending ==
    /\ KeyStep
    /\ IsSome(browser.pending_action)
    /\ key' \notin ConfirmationAnswers

(* C18: while a confirmation is pending, a key other than y, Y, n, N and ESC
   leaves the pending action and both panes as they are, and the status message
   becomes "Unhandled keypress." *)
C18_OtherKeysUnhandled ==
    [][OtherKeyWhilePending =>
          /\ browser'.pending_action = browser.pending_action
          /\ browser'.left = browser.left
          /\ browser'.right = browser.right
          /\ browser'.status_message = Some("Unhandled keypress.")]_vars

\* the three modes of text entry: the handler of each, its flag, its buffer and
\* the message it sets when cancelled
TextEntryModes ==
    {[handler |-> "_handle_command_key", flag |-> "in_command_mode",
      buffer |-> "command_buffer", cancelled |-> "Command cancelled."],
     [handler |-> "_handle_rename_key", flag |-> "in_rename_mode",
      buffer |-> "rename_buffer", cancelled |-> "Rename cancelled."],
     [handler |-> "_handle_create_key", flag |-> "in_create_mode",
      buffer |-> "create_buffer", cancelled |-> "Create cancelled."]}

\* a key comes in while the text entry mode m takes the keys
Typing(m) == KeyStep /\ Handler(browser) = m.handler

\* nothing but the field named changes in the browser, and nothing outside it
OnlyChanges(fields) ==
    /\ \A f \in DOMAIN browser : f \notin fields => browser'[f] = browser[f]
    /\ UNCHANGED <<fs, remote, git, config>>

(* C19: in command, rename and create entry alike: ESC turns the mode off,
   empties its buffer and sets the mode's cancelled message; after Enter the mode
   is off and its buffer empty, whatever the submit action came to; Backspace
   removes the last character of the buffer and nothing else; any other
   printable key, q among them, is appended to the buffer and nothing else
   changes; a resize event changes nothing *)
C19_TextEntryKeys ==
    [][\A m \in TextEntryModes : Typing(m) =>
          CASE key' = "KEY_RESIZE" -> OnlyChanges({})
            [] key' = "ESC" ->
                   /\ ~browser'[m.flag]
                   /\ browser'[m.buffer] = ""
                   /\ browser'.status_message = Some(m.cancelled)
                   /\ OnlyChanges({m.flag, m.buffer, "status_message"})
            [] IsEnter(key') ->
                   /\ ~browser'[m.flag]
                   /\ browser'[m.buffer] = ""
            [] IsBackspace(key') ->
                   /\ browser'[m.buffer] = DropLast(browser[m.buffer])
                   /\ OnlyChanges({m.buffer})
            [] OTHER ->
                   /\ IsPrintable(key')
                   /\ browser'[m.buffer] = browser[m.buffer] \o key'
                   /\ OnlyChanges({m.buffer})]_vars

\* the letter q was typed into the command line, which now holds it
C19_TypedQ ==
    /\ key = "q"
    /\ loop = "render"
    /\ browser.in_command_mode
    /\ browser.command_buffer = "q"

\* the letter that selects a mode in the prompt
Selector(mode) == Lower(CharAt(label(mode), 1))

\* the modes the key k selects
SelectedBy(k) == {ALL_MODES[i] : i \in {j \in 1..Len(ALL_MODES) : Selector(ALL_MODES[j]) = Lower(k)}}

\* a key comes in while the mode prompt takes the keys
Selecting == KeyStep /\ Handler(browser) = "_handle_mode_selection_key"

\* the pane shows what a refresh of it gives: it was refreshed after the last
\* change of what it lists
Fresh(b, side, e) ==
    /\ IsNone(RefreshOf(b, side, e).exc)
    /\ RefreshOf(b, side, e).pane = PaneAt(b, side)

(* C20: in the mode prompt, the letter of the current mode closes the prompt and
   sets "Already in ... mode." and leaves both panes as they are, refreshed or
   not; the letter of another mode sets that mode and, unless a refresh raises
   out of the handler, leaves both panes refreshed for it and the prompt closed;
   ESC closes the prompt and leaves the mode and the panes as they are *)
C20_ModeSelection ==
    [][Selecting =>
          /\ key' = "ESC" =>
                 /\ ~browser'.in_mode_prompt
                 /\ browser'.mode = browser.mode
                 /\ browser'.left = browser.left
                 /\ browser'.right = browser.right
          /\ \A mode \in SelectedBy(key') :
                 IF mode = browser.mode
                 THEN /\ ~browser'.in_mode_prompt
                      /\ browser'.mode = browser.mode
                      /\ browser'.status_message =
                             Some("Already in " \o label(mode) \o " mode.")
                      /\ browser'.left = browser.left
                      /\ browser'.right = browser.right
                      /\ loop' = "render"
                 ELSE /\ browser'.mode = mode
                      /\ loop' = "render" =>
                             /\ ~browser'.in_mode_prompt
                             /\ \A side \in {0, 1} :
                                    Fresh(browser', side, Env(fs', remote', git'))]_vars

\* the letter of the current mode was typed in the prompt while the left pane
\* stood on a directory that cannot be listed, with the entries of the directory
\* above: the prompt is closed and the pane is as it was
C20_AlreadyInMode ==
    /\ key = "f"
    /\ loop = "render"
    /\ ~browser.in_mode_prompt
    /\ browser.status_message = Some("Already in File mode.")
    /\ browser.left.current_dir = <<"k">>
    /\ Len(browser.left.entries) > 0

----------------------------------------------------------------------------
\* the code of path p in the status map collected from the directory p is in
StatusOf(f, g, p) == Lookup(collect_git_status(f, g, Parent(p)).status_map, p)

\* the status message says the git command failed
GitFailed(b) ==
    /\ IsSome(b.status_message)
    /\ Len(Get(b.status_message)) >= 19
    /\ SubSeq(Get(b.status_message), 1, 19) = "Git command failed:"

\* key k comes in with the cursor on the local file p, and git does not fail
GitKeyOn(k, p) ==
    /\ OnEntry(k)
    /\ ~Get(Selected).is_remote
    /\ Get(Selected).path = p
    /\ ~GitFailed(browser')

\* y comes in while the restore of p waits for its confirmation, and git does not
\* fail
RestoreConfirmed(p) ==
    /\ KeyStep
    /\ key' \in {"y", "Y"}
    /\ Handler(browser) = "_handle_confirmation_key"
    /\ Get(browser.pending_action).confirm_action.op = "do_restore"
    /\ Get(browser.pending_action).confirm_action.repo_root
          \o Get(browser.pending_action).confirm_action.rel = p
    /\ ~GitFailed(browser')

(* C21: for a tracked file of the repository: when it is modified in the working
   tree (" M"), staging it makes its status "M "; when it is staged ("M "),
   unstaging it makes its status " M"; when it is modified in the working tree,
   a confirmed restore gives it the content it has in HEAD and takes it out of
   the status map *)
C21_StageUnstageRestore ==
    [][\A p \in DOMAIN git.head :
          /\ (GitKeyOn("a", p) /\ StatusOf(fs, git, p) = Some(" M"))
                 => StatusOf(fs', git', p) = Some("M ")
          /\ (GitKeyOn("u", p) /\ StatusOf(fs, git, p) = Some("M "))
                 => StatusOf(fs', git', p) = Some(" M")
          /\ (RestoreConfirmed(p) /\ StatusOf(fs, git, p) = Some(" M"))
                 => /\ WorkFile(fs', p) = Some(git.head[p])
                    /\ StatusOf(fs', git', p) = None]_vars

\* the modified file a was staged: the index holds what the working tree holds,
\* which is not what HEAD holds
C21_Staged ==
    /\ key = "a"
    /\ loop = "render"
    /\ browser.status_message = Some("Staged a.")
    /\ StatusOf(fs, git, <<"a">>) = Some("M ")

----------------------------------------------------------------------------
\* the pane shows the tree projection
ShowsTree(pane) == pane.tree_mode_enabled /\ ~is_remote(pane) /\ browser.mode = "TREE"

\* the entries without the leading parent entry
Listed(pane) ==
    IF Len(pane.entries) > 0 /\ pane.entries[1].is_parent
    THEN Tail(pane.entries) ELSE pane.entries

\* entry b may follow entry a
MayFollow(a, b) ==
    /\ a.is_dir \/ ~b.is_dir
    /\ a.is_dir = b.is_dir =>
           ~StrLess(Lower(_get_entry_name(b)), Lower(_get_entry_name(a)))

(* C22: in the listing a refresh gives for a directory, local or remote, leaving
   out the leading parent entry: of two consecutive entries the second is a
   directory only when the first is one, and when both are directories or
   neither is, the lower-cased name of the first is not above that of the
   second *)
C22_ListingSorted ==
    loop # "start" =>
        \A pane \in Panes :
            ~ShowsTree(pane) =>
                \A i \in 1..(Len(Listed(pane)) - 1) :
                    MayFollow(Listed(pane)[i], Listed(pane)[i + 1])

\* the local pane on /d lists the directory c before the files a and B, and a
\* before B
C22_DirectoryThenNames ==
    /\ loop = "render"
    /\ ~is_remote(browser.left)
    /\ ~ShowsTree(browser.left)
    /\ [i \in 1..Len(browser.left.entries) |-> browser.left.entries[i].path]
          = <<Root, <<"d", "c">>, <<"d", "a">>, <<"d", "B">>>>

----------------------------------------------------------------------------
\* the directory of the pane holds nothing
EmptyDirectory(pane) ==
    IF is_remote(pane) THEN Children(remote, pane.current_dir) = {}
    ELSE IterDir(fs, pane.current_dir) = {}

\* the entries of the pane that are parent entries, by position
ParentEntries(pane) == {i \in 1..Len(pane.entries) : pane.entries[i].is_parent}

\* the pane lists its directory as the parent entry rule says
ParentEntryRule(pane) ==
    /\ pane.current_dir # Root =>
           /\ ParentEntries(pane) = {1}
           /\ pane.entries[1].path = Parent(pane.current_dir)
           /\ EmptyDirectory(pane) => (Len(pane.entries) = 1 /\ pane.cursor_index = 0)
    /\ pane.current_dir = Root => ParentEntries(pane) = {}

(* C23: after every refresh that returns, in every mode: a pane that is not on
   the root of its filesystem has the parent entry first and no other parent
   entry, and has the parent entry alone and the cursor on it when its directory
   is empty; a pane on the root, local or remote, has no parent entry *)
C23_ParentEntryFirst ==
    loop # "start" => \A pane \in Panes : ParentEntryRule(pane)

(* C23, amended: the rule above holds for every pane that lists its directory
   (every mode but Tree, and Tree on a remote pane); a pane that shows the tree
   projection has no parent entry, whatever directory it is on, and has no
   entry at all when its directory is empty *)
C23_ParentEntryOfListing ==
    loop # "start" =>
        \A pane \in Panes :
            IF ShowsTree(pane)
            THEN /\ ParentEntries(pane) = {}
                 /\ EmptyDirectory(pane) => pane.entries = <<>>
            ELSE ParentEntryRule(pane)

\* Owner mode was switched to while the left pane stood on the empty directory
\* /d: the pane holds the parent entry alone
C23_EmptyDirectory ==
    /\ loop = "render"
    /\ browser.mode = "OWNER"
    /\ browser.left.current_dir = <<"d">>
    /\ EmptyDirectory(browser.left)
    /\ Len(browser.left.entries) = 1
    /\ browser.left.entries[1].is_parent
    /\ browser.left.cursor_index = 0

----------------------------------------------------------------------------
\* a key of a file or git command comes in in Navigation
ModeCommandStep ==
    /\ KeyStep
    /\ Handler(browser) = "_handle_navigation_key"
    /\ Lower(key') \in ModeCommandLetters

(* C24: in Navigation, while the help overlay is shown, the key of a file or git
   command runs no action: the files and the repository stay as they are, no
   external command is run and no confirmation is asked for *)
C24_CommandsNeedNoOverlay ==
    [][(ModeCommandStep /\ browser.show_help) =>
          /\ fs' = fs
          /\ git' = git
          /\ calls' = <<>>
          /\ browser'.pending_action = browser.pending_action]_vars

----------------------------------------------------------------------------
\* the keys _handle_mode_command takes
ModeCommandKeys ==
    ModeCommandLetters \cup {"D", "C", "T", "V", "E", "A", "U", "R", "G", "O", "L", "B"}

\* _handle_mode_command called with key k on the browser as it is
ModeCommand(k) == Run("_handle_mode_command", <<Here, k, {}>>)

(* C27: whenever the browser waits for a key, with the help overlay or the mode
   prompt up or not: _handle_mode_command called with the key of a file or git
   command, in either case, leaves show_help and in_mode_prompt false, and
   returns handled unless an exception leaves it *)
C27_CommandsDismissOverlays ==
    loop = "getch" =>
        \A k \in ModeCommandKeys :
            LET r == ModeCommand(k) IN
            /\ ~r.w.b.show_help
            /\ ~r.w.b.in_mode_prompt
            /\ IsNone(r.w.exc) => r.handled

\* the help overlay is up when the key g of the diff comes in, and is down after
\* the command
C27_DiffUnderHelp ==
    /\ loop = "getch"
    /\ browser.show_help
    /\ LET r == ModeCommand("g") IN ~r.w.b.show_help /\ r.handled

----------------------------------------------------------------------------
\* the status map collected at the root of the repository
RootStatusMap == collect_git_status(fs, git, Get(git.root)).status_map

(* C25: for every rename staged in the repository, the status map has the new
   path of the rename as a key, with a code that starts with R, and does not
   have the old path as a key *)
C25_RenameKeyedByNewPath ==
    IsSome(git.root) =>
        \A new \in DOMAIN StagedRenames(git) :
            /\ new \in DOMAIN RootStatusMap
            /\ CharAt(RootStatusMap[new], 1) = "R"
            /\ StagedRenames(git)[new] \notin DOMAIN RootStatusMap

----------------------------------------------------------------------------
\* the git status an entry of the pane is to carry in Git mode: the value the
\* status map collected for the directory of the pane has for the resolved path
\* of the entry
StatusInMap(pane, entry) ==
    IF IsNone(Resolve(fs, entry.path)) THEN None
    ELSE Lookup(collect_git_status(fs, git, pane.current_dir).status_map,
                Get(Resolve(fs, entry.path)))

(* C26: after a refresh that returns: in every mode but Git, and in every remote
   pane, no entry carries a git status; in Git mode every entry of a local pane
   carries the value the status map has for its resolved path, and none when the
   path is not a key of the map or the directory is in no repository *)
C26_GitStatusOverlay ==
    loop # "start" =>
        \A pane \in Panes : \A i \in 1..Len(pane.entries) :
            IF browser.mode # "GIT" \/ is_remote(pane)
            THEN pane.entries[i].git_status = None
            ELSE pane.entries[i].git_status = StatusInMap(pane, pane.entries[i])

\* Git mode was switched to on /d in the repository: the modified file a and an
\* untracked file are listed with their codes
C26_StatusShown ==
    /\ loop = "render"
    /\ browser.mode = "GIT"
    /\ ~is_remote(browser.left)
    /\ \E i, j \in 1..Len(browser.left.entries) :
           /\ browser.left.entries[i].git_status = Some(" M")
           /\ browser.left.entries[j].git_status = Some("??")

----------------------------------------------------------------------------
\* the pane with its cursor on entry i
CursorOn(pane, i) == [pane EXCEPT !.cursor_index = i - 1]

\* the resolved root of the tree the pane shows
TreeRoot(pane) == _normalize_tree_path(fs, pane.current_dir)

\* the resolved directory an entry of the tree is listed under
TreeParent(entry) == _normalize_tree_path(fs, Get(entry.tree_parent_path))

\* the paths a collapse with the cursor on entry i adds to the collapsed ones
Collapsing(pane, i) ==
    collapse_tree_at_cursor(CursorOn(pane, i), fs).pane.tree_collapsed_paths
        \ pane.tree_collapsed_paths

(* C28: in every tree the browser comes to show and with the cursor on any of
   its entries, collapse_tree_at_cursor does this: on a file listed under a
   directory other than the root, that directory is among the collapsed paths
   afterwards; on a file listed under the root, or on a directory whose resolved
   path is the root, the pane stays as it is and the result is false; in every
   case the result is true exactly when a path was added, at most one path is
   added, none is taken away and nothing else of the pane changes *)
C28_CollapseFromFile ==
    loop # "start" =>
        \A pane \in TreePanes : \A i \in 1..Len(pane.entries) :
            LET entry == pane.entries[i]
                c == collapse_tree_at_cursor(CursorOn(pane, i), fs)
                added == c.pane.tree_collapsed_paths \ pane.tree_collapsed_paths
                target == IF entry.is_dir THEN _normalize_tree_path(fs, entry.path)
                          ELSE TreeParent(entry)
            IN /\ (~entry.is_dir /\ TreeParent(entry) # TreeRoot(pane))
                      => TreeParent(entry) \in c.pane.tree_collapsed_paths
               /\ target = TreeRoot(pane) => (c.pane = CursorOn(pane, i) /\ ~c.result)
               /\ c.result <=> added # {}
               /\ Cardinality(added) <= 1
               /\ c.pane = [CursorOn(pane, i) EXCEPT !.tree_collapsed_paths = @ \cup added]

\* - was pressed on the file d/a, third in the tree of / after d and d/e and before
\* k: d is collapsed, and the cursor was taken back to the last of the two entries
\* that are left
C28_CollapsedFromFile ==
    /\ key = "-"
    /\ <<"k">> \in DOMAIN fs
    /\ loop = "render"
    /\ browser.mode = "TREE"
    /\ browser.status_message # Some("Unhandled keypress.")
    /\ browser.left.current_dir = Root
    /\ browser.left.tree_collapsed_paths = {<<"d">>}
    /\ Len(browser.left.entries) = 2
    /\ browser.left.cursor_index = 1

----------------------------------------------------------------------------
(* C29: in every tree the browser comes to show, collapse_tree_at_cursor with the
   cursor on a symlinked directory adds no path but the directory the link is
   listed under, and adds that one when it is not the root *)
C29_LinkCollapsesParent ==
    loop # "start" =>
        \A pane \in TreePanes : \A i \in 1..Len(pane.entries) :
            LET entry == pane.entries[i] IN
            (entry.is_dir /\ entry.is_symlink) =>
                /\ Collapsing(pane, i) \subseteq {TreeParent(entry)}
                /\ TreeParent(entry) # TreeRoot(pane)
                       => Collapsing(pane, i) = {TreeParent(entry)}

----------------------------------------------------------------------------
\* the pane shows the tree projection in browser b
IsTreePane(b, pane) == pane.tree_mode_enabled /\ b.mode = "TREE" /\ ~is_remote(pane)

\* p lies below root and is not root
StrictlyBelow(root, p) == p # root /\ IsPrefix(root, p)

\* after a key step the collapsed paths of the pane lie strictly below the
\* resolved root of the tree it shows
CollapsedBelowRoot(b, f, pane) ==
    IsTreePane(b, pane) =>
        \A c \in pane.tree_collapsed_paths :
            StrictlyBelow(_normalize_tree_path(f, pane.current_dir), c)

\* Enter on a directory or Backspace comes in in Navigation while the active
\* pane has its tree projection on
DirectoryChangeInTree ==
    /\ KeyStep
    /\ Handler(browser) = "_handle_navigation_key"
    /\ _active_pane(browser).tree_mode_enabled
    /\ \/ IsBackspace(key')
       \/ IsEnter(key') /\ IsSome(Selected) /\ Get(Selected).is_dir

\* the step puts the pane on a current directory it was not on before the step:
\* another path, or a local directory after a remote one
OnNewDirectory(old, new) ==
    old.current_dir # new.current_dir \/ is_remote(old) # is_remote(new)

(* C30: after every key step, the collapsed paths of a pane that shows the tree
   lie strictly below the resolved root of the tree; a step that puts a pane on
   a new current directory and leaves it showing the tree leaves it with no
   directory shown as collapsed, whatever was collapsed before; and Enter on a
   directory and Backspace, with the tree projection on, leave the active pane
   with no collapsed path *)
C30_CollapseStateOfDirectory ==
    [][KeyStep =>
          /\ \A side \in {0, 1} :
                 LET old == PaneAt(browser, side)
                     new == PaneAt(browser', side)
                 IN /\ CollapsedBelowRoot(browser', fs', new)
                    /\ (IsTreePane(browser', new) /\ OnNewDirectory(old, new))
                           => \A i \in 1..Len(new.entries) :
                                  ~new.entries[i].tree_is_collapsed
          /\ DirectoryChangeInTree
                 => _active_pane(browser').tree_collapsed_paths = {}]_vars

----------------------------------------------------------------------------
\* enter_selected with the cursor on entry i, as the files are now
EnterAt(pane, i) ==
    enter_selected(CursorOn(pane, i), Env(fs, remote, git), browser.mode)

\* the pane as enter_selected leaves it before it refreshes, on directory dir
EnteredOn(pane, i, dir) ==
    [CursorOn(pane, i) EXCEPT !.current_dir = dir,
                              !.cursor_index = 0,
                              !.scroll_offset = 0,
                              !.tree_collapsed_paths =
                                  IF pane.tree_mode_enabled THEN {} ELSE @]

\* what enter_selected comes to when the directory it goes to is dir: the pane on
\* dir with cursor and scroll at 0, refreshed; a pane whose refresh raises is on
\* dir as well.  On an entry that is no directory the pane is returned as it is
EntersOrStays(pane, i, dir) ==
    LET r == EnterAt(pane, i) IN
    IF pane.entries[i].is_dir
    THEN /\ r = refresh_entries(EnteredOn(pane, i, dir), Env(fs, remote, git), browser.mode)
         /\ r.pane.current_dir = dir
         /\ r.pane.cursor_index = 0
         /\ r.pane.scroll_offset = 0
    ELSE r = Returned(CursorOn(pane, i))

\* enter_selected on a pane without entries returns it as it is
StaysWhenEmpty(pane) ==
    pane.entries = <<>> =>
        enter_selected(pane, Env(fs, remote, git), browser.mode) = Returned(pane)

(* C31 as stated: in every pane the browser comes to show and with the cursor on
   any entry, enter_selected on a directory leaves the pane on that entry's
   path with cursor and scroll at 0, refreshed, and on any other entry, or
   without entries, leaves the pane as it is *)
C31_EnterSetsEntryPath ==
    loop # "start" =>
        \A pane \in Panes :
            /\ StaysWhenEmpty(pane)
            /\ \A i \in 1..Len(pane.entries) :
                   EntersOrStays(pane, i, pane.entries[i].path)

(* C31 amended: the directory enter_selected goes to is the entry's path on a
   remote pane and the resolved path of the entry on a local one, the target of
   a symlink to a directory and not the path of the link; the rest as stated *)
C31_EnterSetsResolvedPath ==
    loop # "start" =>
        \A pane \in Panes :
            /\ StaysWhenEmpty(pane)
            /\ \A i \in 1..Len(pane.entries) :
                   EntersOrStays(pane, i,
                                 IF is_remote(pane) THEN pane.entries[i].path
                                 ELSE _normalize_tree_path(fs, pane.entries[i].path))

\* Enter on the link d/l to the root, in the tree of / or of /d: the pane is on /,
\* the target of the link, with the cursor on the first entry
C31_EnteredThroughLink ==
    /\ key = "ENTER"
    /\ loop = "render"
    /\ browser.mode = "TREE"
    /\ <<"d", "l">> \in DOMAIN fs
    /\ fs[<<"d", "l">>] = LinkNode(<<>>)
    /\ ~is_remote(browser.left)
    /\ browser.left.current_dir = Root
    /\ browser.left.cursor_index = 0
    /\ browser.status_message = None

----------------------------------------------------------------------------
\* the go-up key comes in in Navigation
GoUpStep ==
    /\ KeyStep
    /\ Handler(browser) = "_handle_navigation_key"
    /\ IsBackspace(key')

(* C32: the go-up key in Navigation leaves the active pane on the parent of the
   directory it was on, the root on the root, with cursor and scroll at 0, and
   the loop goes on; when the listing of the parent fails, the pane is on the
   parent all the same, shows the entries it showed before and the status
   message is the text of the failure; when it succeeds the status message is
   cleared *)
C32_GoUpKeepsDirectoryChange ==
    [][GoUpStep =>
          LET old == _active_pane(browser)
              new == _active_pane(browser')
              listed == RefreshOf(browser', browser'.active_index,
                                  Env(fs', remote', git'))
          IN /\ loop' = "render"
             /\ browser'.active_index = browser.active_index
             /\ new.current_dir = Parent(old.current_dir)
             /\ old.current_dir = Root => new.current_dir = Root
             /\ new.cursor_index = 0
             /\ new.scroll_offset = 0
             /\ IF IsSome(listed.exc)
                THEN /\ new.entries = old.entries
                     /\ browser'.status_message = Some(Get(listed.exc).msg)
                ELSE /\ new.entries = listed.pane.entries
                     /\ browser'.status_message = None]_vars

\* the local pane went up from /k/e to /k, which may not be listed: it is on /k,
\* shows the parent entry of /k/e, and the status message is the refusal
C32_WentUpToUnlistable ==
    /\ key = "KEY_BACKSPACE"
    /\ loop = "render"
    /\ ~is_remote(browser.left)
    /\ browser.left.current_dir = <<"k">>
    /\ Len(browser.left.entries) = 1
    /\ browser.left.entries[1].is_parent
    /\ browser.left.entries[1].path = <<"k">>
    /\ browser.status_message = Some("Permission denied reading directory: /k")

----------------------------------------------------------------------------
\* the viewport heights ensure_cursor_visible is tried with: none, and up to a
\* row more than the panes are drawn with
Heights == -1 .. ViewportRows + 1

(* C33: for the entries of every pane the browser comes to show, when they are
   not empty, every cursor position on them, every scroll offset from 0 to the
   number of entries and every viewport height h: ensure_cursor_visible(h) with
   h > 0 leaves scroll_offset <= cursor_index < scroll_offset + h and
   0 <= scroll_offset <= max(len(entries) - h, 0), and with h <= 0 leaves
   scroll_offset 0; it changes nothing but the scroll offset *)
C33_CursorInViewport ==
    \A pane \in Panes :
        \A c \in 0 .. Len(pane.entries) - 1 : \A s \in 0 .. Len(pane.entries) :
            \A h \in Heights :
                LET before == [pane EXCEPT !.cursor_index = c, !.scroll_offset = s]
                    after == ensure_cursor_visible(before, h)
                IN /\ after = [before EXCEPT !.scroll_offset = after.scroll_offset]
                   /\ h > 0 => /\ after.scroll_offset <= c
                               /\ c < after.scroll_offset + h
                               /\ 0 <= after.scroll_offset
                               /\ after.scroll_offset <= Max(Len(pane.entries) - h, 0)
                   /\ h <= 0 => after.scroll_offset = 0

\* the cursor went a page down to the last of three or more entries and the pane
\* was drawn: the window of ViewportRows rows ends on the cursor
C33_ScrolledDownToCursor ==
    /\ key = "KEY_NPAGE"
    /\ loop = "getch"
    /\ Len(browser.left.entries) > ViewportRows
    /\ browser.left.cursor_index = Len(browser.left.entries) - 1
    /\ browser.left.scroll_offset = browser.left.cursor_index - ViewportRows + 1


----------------------------------------------------------------------------
(* The SSH prompt: which field is current, what leaves the host field, and what
   starts a connection attempt. *)

SshKeyStep == KeyStep /\ Handler(browser) = "_handle_ssh_connect_key"

ConfirmStep == KeyStep /\ Handler(browser) = "_handle_confirmation_key"

\* ssh_connection.connect() was called in the step
ConnectAttempted == \E i \in 1..Len(calls') : Contains(calls'[i], "connect ")

\* _handle_host_field_exit finds credentials for the host typed
HostFieldFindsCredentials ==
    /\ browser.ssh_input_field = 0
    /\ Strip(browser.ssh_host_buffer) # ""
    /\ IsSome(_detect_available_credentials(Here, Strip(browser.ssh_host_buffer)))

\* the confirmation requested by _handle_host_field_exit
CredentialsAsked(b) ==
    /\ IsSome(b.pending_action)
    /\ Get(b.pending_action).confirm_action = Method("_begin_manual_credentials_override")

SshTypingOnly ==
    CASE IsBackspace(key') ->
             /\ browser'[SshBuffer(browser.ssh_input_field)]
                    = DropLast(browser[SshBuffer(browser.ssh_input_field)])
             /\ OnlyChanges({SshBuffer(browser.ssh_input_field)})
      [] IsPrintable(key') ->
             /\ browser'[SshBuffer(browser.ssh_input_field)]
                    = browser[SshBuffer(browser.ssh_input_field)] \o key'
             /\ OnlyChanges({SshBuffer(browser.ssh_input_field)})
      [] OTHER -> TRUE

ConnectOnlyFromLastFieldOrConfirmation ==
    (KeyStep /\ ConnectAttempted) =>
        \/ SshKeyStep /\ IsEnter(key') /\ browser.ssh_input_field = 2
        \/ ConfirmStep

(* C34 as stated: in SSH-connect mode the field index is always 0, 1 or 2; Enter
   on field 0 or 1 advances it by one, Tab advances it with wrap-around from 2
   to 0, typed characters and Backspace affect only the buffer of the current
   field, and a connection attempt is started only by Enter on field 2 or by
   the action of a confirmation *)
C34_FieldsCycle ==
    [][/\ browser'.ssh_input_field \in 0..2
       /\ SshKeyStep =>
            /\ (IsEnter(key') /\ browser.ssh_input_field \in {0, 1})
                   => browser'.ssh_input_field = browser.ssh_input_field + 1
            /\ key' = "TAB"
                   => browser'.ssh_input_field = (browser.ssh_input_field + 1) % 3
            /\ SshTypingOnly
       /\ ConnectOnlyFromLastFieldOrConfirmation]_vars

(* C34, amended: as stated, except that Enter or Tab on the host field leaves
   the index at 0 and requests a confirmation when credentials are found for
   the non-empty host typed *)
C34_FieldsCycleUnlessCredentialsFound ==
    [][/\ browser'.ssh_input_field \in 0..2
       /\ SshKeyStep =>
            /\ (IsEnter(key') /\ browser.ssh_input_field \in {0, 1})
                   => IF HostFieldFindsCredentials
                      THEN browser'.ssh_input_field = 0 /\ CredentialsAsked(browser')
                      ELSE browser'.ssh_input_field = browser.ssh_input_field + 1
            /\ key' = "TAB"
                   => IF HostFieldFindsCredentials
                      THEN browser'.ssh_input_field = 0 /\ CredentialsAsked(browser')
                      ELSE browser'.ssh_input_field = (browser.ssh_input_field + 1) % 3
            /\ SshTypingOnly
       /\ ConnectOnlyFromLastFieldOrConfirmation]_vars

\* Tab on the password field has wrapped to the host field
C34_TabWrapped ==
    /\ key = "TAB"
    /\ loop = "render"
    /\ browser.in_ssh_connect_mode
    /\ browser.ssh_input_field = 0
    /\ browser.ssh_host_buffer = "h"
    /\ browser.pending_action = None
    /\ config.credentials = <<>>
    /\ ~config.agent

(* C35: on Tab or Enter in the host field with a non-empty host for which saved
   credentials or an SSH agent are found, a confirmation is requested and the
   field index stays 0 for as long as it is pending; answered with y it leaves
   the prompt on the user field with nothing connected, and answered with n, N
   or ESC it starts a connection to that host with the credentials found *)
C35_HostFieldConfirmation ==
    [][/\ (SshKeyStep /\ (IsEnter(key') \/ key' = "TAB") /\ HostFieldFindsCredentials)
              => /\ CredentialsAsked(browser')
                 /\ browser'.ssh_input_field = 0
                 /\ ~ConnectAttempted
       /\ CredentialsAsked(browser') => browser'.ssh_input_field = 0
       /\ (ConfirmStep /\ CredentialsAsked(browser)) =>
              LET found == Get(browser.ssh_available_credentials) IN
              CASE key' \in {"y", "Y"} ->
                       /\ browser'.ssh_input_field = 1
                       /\ browser'.in_ssh_connect_mode
                       /\ browser'.pending_action = None
                       /\ ~ConnectAttempted
                [] key' \in {"n", "N", "ESC"} ->
                       /\ calls' = <<"connect " \o found.host>>
                       /\ _active_pane(browser').ssh_connection
                              = Some(Connection(found.host, found.username))
                [] OTHER -> TRUE]_vars

\* the saved credentials were kept: the active pane is connected as the saved user
C35_ConnectedWithSaved ==
    /\ key = "N"
    /\ loop = "render"
    /\ "h" \in DOMAIN config.credentials
    /\ _active_pane(browser).ssh_connection = Some(Connection("h", "v"))
    /\ ~browser.in_ssh_connect_mode
    /\ browser.pending_action = None

\* the confirmation requested by _execute_ssh_connect for an unknown host key
HostKeyAsked(b) ==
    /\ IsSome(b.pending_action)
    /\ Get(b.pending_action).confirm_action = Method("_approve_host_key_and_connect")

(* C37: whenever a connection attempt returns without having just requested the
   unknown-host-key confirmation, connected or failed and whatever earlier
   attempts did, SSH-connect mode is off and the host, user and password
   buffers are empty *)
C37_AttemptLeavesPrompt ==
    [][(KeyStep /\ ConnectAttempted /\ ~HostKeyAsked(browser')) =>
           /\ ~browser'.in_ssh_connect_mode
           /\ browser'.ssh_host_buffer = ""
           /\ browser'.ssh_user_buffer = ""
           /\ browser'.ssh_password_buffer = ""]_vars

(* C38: declining the unknown-host-key confirmation with n, N or ESC abandons
   the attempt: the stored pending connection is cleared, nothing is connected,
   and the next key goes to navigation, not to the SSH prompt *)
C38_DeclineAbandonsAttempt ==
    [][(ConfirmStep /\ HostKeyAsked(browser) /\ key' \in {"n", "N", "ESC"}) =>
           /\ browser'.ssh_pending_connection = None
           /\ ~ConnectAttempted
           /\ \A side \in {0, 1} : PaneAt(browser', side).ssh_connection
                                        = PaneAt(browser, side).ssh_connection
           /\ ~browser'.in_ssh_connect_mode
           /\ Handler(browser') = "_handle_navigation_key"]_vars

----------------------------------------------------------------------------
(* Work on a remote host: the recursive delete, and what a pane lists once its
   connection is no longer connected. *)

\* y on the confirmation of a delete of a remote directory
DeletingRemoteDirectory ==
    /\ ConfirmStep
    /\ key' \in {"y", "Y"}
    /\ Pending.op = "do_delete"
    /\ Get(Pending.entry).is_remote
    /\ Get(Pending.entry).is_dir
    /\ IsSome(_active_pane(browser).ssh_connection)

\* the SFTP call that removes q
CallOf(q) ==
    (IF remote[q].kind = "dir" THEN "rmdir " ELSE "remove ") \o PathStr(q)

\* where in the calls of the step q is removed
CalledAt(q) == {i \in 1..Len(calls') : calls'[i] = CallOf(q)}

\* the directories under p that the host refuses to list
Unlistable(p) ==
    {q \in Subtree(remote, p) : remote[q].kind = "dir" /\ RemoteListFails(remote, q)}

\* the place of q among the entries the host lists for its directory
Position(q) ==
    LET listed == RemoteListing(remote, Parent(q)) IN
    CHOOSE i \in 1..Len(listed) : listed[i] = q

\* q is met before k by the walk: where their paths part, q's side is listed first
WalkedBefore(q, k) ==
    \E n \in 1..Min(Len(q), Len(k)) :
        /\ SubSeq(q, 1, n - 1) = SubSeq(k, 1, n - 1)
        /\ q[n] # k[n]
        /\ Position(SubSeq(q, 1, n)) < Position(SubSeq(k, 1, n))

(* C36: the recursive delete of a remote directory removes every file and
   directory beneath a directory before the directory itself; when a remote
   call fails the walk stops and reports the failure: nothing listed after the
   failing path is removed, and no directory that still has children is *)
C36_RemoteDeleteChildrenFirst ==
    [][DeletingRemoteDirectory =>
           LET p == Get(Pending.entry).path
               removed == DOMAIN remote \ DOMAIN remote'
               failing == Unlistable(p)
           IN /\ removed \subseteq Subtree(remote, p)
              /\ \A q \in removed : CalledAt(q) # {}
              /\ \A q \in removed : \A c \in Subtree(remote, q) \ {q} :
                     \E i \in CalledAt(c) : \E j \in CalledAt(q) : i < j
              /\ \A q \in DOMAIN remote' : Parent(q) \in DOMAIN remote'
              /\ IF failing = {} /\ is_remote(_active_pane(browser))
                 THEN /\ removed = Subtree(remote, p)
                      /\ browser'.status_message
                             = Some("Deleted " \o Pending.entry_name \o ".")
                 ELSE /\ p \notin removed
                      /\ \A q \in removed : \A k \in failing : WalkedBefore(q, k)
                      /\ IsSome(browser'.status_message)
                      /\ Contains(Get(browser'.status_message), "Delete failed: ")]_vars

\* the walk of /d removed the empty directory e, failed on k, which the host does
\* not list, and left the file a and /d itself
C36_StoppedAtUnlistable ==
    /\ key = "y"
    /\ loop = "render"
    /\ DOMAIN remote = {<<>>, <<"d">>, <<"d", "a">>, <<"d", "k">>}
    /\ calls = <<"rmdir " \o PathStr(<<"d", "e">>)>>
    /\ IsSome(browser.status_message)
    /\ Contains(Get(browser.status_message), "Delete failed: ")

(* C39: a pane whose current directory was reached over SSH, which is a pane
   that holds a connection, never shows entries of the local filesystem, also
   when the connection is no longer connected and the pane is refreshed; and
   the file operations on such a pane leave the local files alone *)
C39_RemotePaneNeverLocal ==
    [][/\ \A side \in {0, 1} :
              IsSome(PaneAt(browser', side).ssh_connection)
                  => \A i \in 1..Len(PaneAt(browser', side).entries) :
                         PaneAt(browser', side).entries[i].is_remote
       /\ (KeyStep /\ IsSome(_active_pane(browser).ssh_connection)) => fs' = fs]_vars
====
